---- MODULE Spec2Model ----
(***************************************************************************)
(* Genesis loading of fuel-core: the per-category genesis workers          *)
(* (crates/fuel-core/src/service/genesis/workers.rs), the runner that      *)
(* drives one category's group sequence, the orchestrator that joins the   *)
(* workers, and the grouped snapshot codec (crates/chain-config).          *)
(***************************************************************************)
EXTENDS Integers, Sequences, FiniteSets, TLC

(***************************************************************************)
(* Bounds of the model.                                                    *)
(***************************************************************************)
\* number of coin groups of the snapshot (one coin record each)
CoinGroups == 2
\* number of contract records in the single contract group of the snapshot
ContractsPerGroup == 2
\* number of runs of the load on the same store (1 + number of restarts)
MaxRuns == 2
\* number of threads of the worker pool the runners execute on
PoolSize == 2
\* largest group size of the group generator and of the JSON decoder
MaxGroupSize == 2
\* largest number of groups the group generator produces
MaxNumGroups == 2
\* u64::MAX, the largest value of Handler::output_index, scaled down to the
\* counter width of the model
U64Max == 7
\* number of records a handler is handed when it is exercised on its own:
\* enough to exhaust the counter
MaxRecords == 9
\* number of records of any record-level type a handler is handed
MaxSteps == 3
\* number of calls made on a StopSignals
MaxCalls == 7
\* the f64 values of the model are the fractions n / Scale
Scale == 8
\* the slopes range over -MaxSlope / Scale .. MaxSlope / Scale
MaxSlope == 64
\* the intercepts and constants range over -MaxIntercept / Scale ..
\* MaxIntercept / Scale
MaxIntercept == 12
\* number of elements the iterator over the store's contract ids yields
MaxChunks == 4

(***************************************************************************)
(* Names.                                                                  *)
(***************************************************************************)
\* record types handled by the five snapshot workers
Workers ==
  {"CoinConfig", "MessageConfig", "ContractConfig",
   "ContractStateConfig", "ContractBalanceConfig"}

\* record type of the ContractsRoot worker
RootWorker == "ContractId"

AllWorkers == Workers \cup {RootWorker}

\* GenesisResource, the key of the persisted progress cursor
Resources ==
  {"Coins", "Messages", "Contracts", "ContractStates", "ContractBalances",
   "ContractsRoot"}

\* a copy-paste slip in the HandlesGenesisResource impls: CoinConfig reports
\* the resource of MessageConfig
genesis_resource_swapped(t) ==
  CASE t = "CoinConfig" -> "Messages"
    [] t = "MessageConfig" -> "Messages"
    [] t = "ContractConfig" -> "Contracts"
    [] t = "ContractStateConfig" -> "ContractStates"
    [] t = "ContractBalanceConfig" -> "ContractBalances"
    [] t = "ContractId" -> "ContractsRoot"

\* HandlesGenesisResource::genesis_resource of each record type
genesis_resource(t) ==
  CASE t = "CoinConfig" -> "Coins"
    [] t = "MessageConfig" -> "Messages"
    [] t = "ContractConfig" -> "Contracts"
    [] t = "ContractStateConfig" -> "ContractStates"
    [] t = "ContractBalanceConfig" -> "ContractBalances"
    [] t = "ContractId" -> "ContractsRoot"

\* Option::None of an origin transaction (tx_id / output_index) of a record
Absent == "absent"

\* the progress cursor of a resource no group of which has been committed
NoProgress == -1

(***************************************************************************)
(* Group<T> and the snapshot.                                              *)
(***************************************************************************)
\* Group { index, data }
Group(index, data) == [index |-> index, data |-> data]

\* enumerate() that numbers every element 0
EnumerateStuck(seq) == [i \in 1..Len(seq) |-> Group(0, seq[i])]

\* Iterator::enumerate followed by map(|(index, data)| Group { index, data })
Enumerate(seq) == [i \in 1..Len(seq) |-> Group(i - 1, seq[i])]

CoinRecord(n) == [owner |-> n, utxo |-> Absent]
\* a contract with the initial state and balances embedded in its record
ContractWith(n, state, balances) ==
  [contract_id |-> n, utxo |-> Absent, state |-> state, balances |-> balances]
ContractRecord(n) == ContractWith(n, <<>>, <<>>)
MessageRecord(n) == [nonce |-> n]
ContractStateRecord(c, k, v) == [contract_id |-> c, key |-> k, value |-> v]
ContractBalanceRecord(c, a, n) == [contract_id |-> c, asset_id |-> a, amount |-> n]

\* the snapshots the load is run on; a snapshot may omit categories
Snapshots == {"records", "contracts", "embedded", "truncated"}

\* the state and the balances of contract 1
StateOfContract == <<[key |-> "k1", value |-> "v1"], [key |-> "k2", value |-> "v2"]>>
BalancesOfContract == <<[asset_id |-> "a1", amount |-> 5]>>

\* the data of the groups of each category of a snapshot, in file order:
\* "records" holds coins, messages and contracts, "contracts" holds contracts
\* with the state and balances of contract 1 as standalone groups,
\* "embedded" holds the same contracts with the state and balances of
\* contract 1 embedded in its record, "truncated" holds coins in a file
\* that is cut after its last group
SnapshotData(snap, t) ==
  CASE t = "CoinConfig" /\ snap \in {"records", "truncated"} ->
         [g \in 1..CoinGroups |-> <<CoinRecord(g)>>]
    [] t = "MessageConfig" /\ snap = "records" -> <<<<MessageRecord(1)>>>>
    [] t = "ContractConfig" /\ snap \in {"records", "contracts"} ->
         <<[p \in 1..ContractsPerGroup |-> ContractRecord(p)]>>
    [] t = "ContractConfig" /\ snap = "embedded" ->
         <<[p \in 1..ContractsPerGroup |->
              IF p = 1 THEN ContractWith(1, StateOfContract, BalancesOfContract)
              ELSE ContractRecord(p)]>>
    [] t = "ContractStateConfig" /\ snap = "contracts" ->
         <<[i \in 1..Len(StateOfContract) |->
              ContractStateRecord(1, StateOfContract[i].key, StateOfContract[i].value)]>>
    [] t = "ContractBalanceConfig" /\ snap = "contracts" ->
         <<[i \in 1..Len(BalancesOfContract) |->
              ContractBalanceRecord(1, BalancesOfContract[i].asset_id,
                                    BalancesOfContract[i].amount)]>>
    [] OTHER -> <<>>

\* the element of a group sequence that is a decode error (Err(..))
DecodeError == [error |-> "format"]

IsErr(element) == "error" \in DOMAIN element

\* the elements of a group sequence that are groups
OkGroups(groups) == SelectSeq(groups, LAMBDA e : ~IsErr(e))

\* a reader that yields one empty group for a category that has no file
StateReaderGroupsEmptyGroup(snap, t) ==
  IF SnapshotData(snap, t) = <<>> THEN <<Group(0, <<>>)>>
  ELSE IF snap = "truncated" /\ t = "CoinConfig"
  THEN Append(Enumerate(SnapshotData(snap, t)), DecodeError)
  ELSE Enumerate(SnapshotData(snap, t))

\* a reader that fails eagerly on a file that is cut: the groups before the
\* cut are not yielded
StateReaderGroupsErrorOnly(snap, t) ==
  IF snap = "truncated" /\ t = "CoinConfig" THEN <<DecodeError>>
  ELSE Enumerate(SnapshotData(snap, t))

\* StateReader::coins(), messages(), ...: the lazy group sequence of a
\* category; no file: the empty sequence; a file that is cut: a decode error
\* as the element after the groups that could be read
StateReaderGroups(snap, t) ==
  IF snap = "truncated" /\ t = "CoinConfig"
  THEN Append(Enumerate(SnapshotData(snap, t)), DecodeError)
  ELSE Enumerate(SnapshotData(snap, t))

(***************************************************************************)
(* The store (Database) and a transaction on it.                           *)
(***************************************************************************)
\* the writes of a transaction that has written nothing
EmptyTx ==
  [coins |-> {}, messages |-> {}, contracts |-> {},
   contract_state |-> {}, contract_balance |-> {},
   coin_roots |-> <<>>, message_roots |-> <<>>,
   contract_ids |-> <<>>, contract_roots |-> <<>>,
   calls |-> <<>>]

\* a runner that has no transaction open
NoTx == "no_tx"

\* the store before genesis: no record, no commitment leaf, no progress
EmptyDb ==
  [coins |-> {}, messages |-> {}, contracts |-> {},
   contract_state |-> {}, contract_balance |-> {},
   coin_roots |-> <<>>, message_roots |-> <<>>,
   contract_ids |-> <<>>, contract_roots |-> <<>>,
   progress |-> [r \in Resources |-> NoProgress]]

\* what a transaction reads: the store and its own writes
TxView(store, t) ==
  [coins |-> store.coins \cup t.coins,
   messages |-> store.messages \cup t.messages,
   contracts |-> store.contracts \cup t.contracts,
   contract_state |-> store.contract_state \cup t.contract_state,
   contract_balance |-> store.contract_balance \cup t.contract_balance,
   coin_roots |-> store.coin_roots \o t.coin_roots,
   message_roots |-> store.message_roots \o t.message_roots,
   contract_ids |-> store.contract_ids \o t.contract_ids,
   contract_roots |-> store.contract_roots \o t.contract_roots,
   progress |-> store.progress]

\* a commit that lands the writes of the group without the cursor
CommitTxNoCursor(store, t, resource, index) == TxView(store, t)

\* commit of a group's transaction: its writes and the progress cursor of the
\* resource land together
CommitTx(store, t, resource, index) ==
  [TxView(store, t) EXCEPT !.progress[resource] = index]

(***************************************************************************)
(* init_coin, init_contract, init_da_message and the store calls of the    *)
(* handler.                                                                *)
(***************************************************************************)
\* the identity of a record: its own origin transaction, or the slot
UtxoOf(rec, output_index) ==
  IF rec.utxo = Absent THEN output_index ELSE rec.utxo

\* the transaction's log of the output_index values init_coin and
\* init_contract were called with (a history of the calls, not store data)
Called(t, output_index) == [t EXCEPT !.calls = Append(@, output_index)]

init_coin(t, coin, output_index) ==
  [tx |-> [Called(t, output_index) EXCEPT !.coins =
             @ \cup {[utxo |-> UtxoOf(coin, output_index), owner |-> coin.owner]}],
   root |-> <<"coin", UtxoOf(coin, output_index), coin.owner>>]

\* the entries embedded in a contract record, as standalone records
EmbeddedState(contract) ==
  {ContractStateRecord(contract.contract_id, contract.state[i].key,
                       contract.state[i].value) : i \in 1..Len(contract.state)}
EmbeddedBalances(contract) ==
  {ContractBalanceRecord(contract.contract_id, contract.balances[i].asset_id,
                         contract.balances[i].amount) :
     i \in 1..Len(contract.balances)}

\* an init_contract that leaves the embedded state and balances out
init_contract_bare(t, contract, output_index) ==
  [Called(t, output_index) EXCEPT !.contracts =
     @ \cup {[utxo |-> UtxoOf(contract, output_index),
              contract_id |-> contract.contract_id]}]

\* init_contract: the contract, and the state and balances embedded in
\* its record
init_contract(t, contract, output_index) ==
  [Called(t, output_index) EXCEPT
     !.contracts = @ \cup {[utxo |-> UtxoOf(contract, output_index),
                            contract_id |-> contract.contract_id]},
     !.contract_state = @ \cup EmbeddedState(contract),
     !.contract_balance = @ \cup EmbeddedBalances(contract)]

init_da_message(t, message) ==
  [tx |-> [t EXCEPT !.messages = @ \cup {message}],
   root |-> <<"message", message.nonce>>]

add_coin_root(t, root) == [t EXCEPT !.coin_roots = Append(@, root)]
add_message_root(t, root) == [t EXCEPT !.message_roots = Append(@, root)]
\* a contract id put in front of the ids folded so far
add_contract_id_front(t, id) == [t EXCEPT !.contract_ids = <<id>> \o @]
add_contract_id(t, id) == [t EXCEPT !.contract_ids = Append(@, id)]
add_contract_root(t, root) == [t EXCEPT !.contract_roots = Append(@, root)]
update_contract_states(t, group) ==
  [t EXCEPT !.contract_state = @ \cup {group[i] : i \in 1..Len(group)}]
update_contract_balances(t, group) ==
  [t EXCEPT !.contract_balance = @ \cup {group[i] : i \in 1..Len(group)}]

\* ContractRef::root: the root of a contract over its state and balances
ContractRefRoot(view, id) ==
  <<"contract", id,
    {s \in view.contract_state : s.contract_id = id},
    {b \in view.contract_balance : b.contract_id = id}>>

(***************************************************************************)
(* Handler: ProcessState / ProcessStateGroup of each record type.          *)
(* A call returns Ok with the handler and the transaction as the call left *)
(* them, or Err; `fail` names the store call that returns Err ("none",     *)
(* "init" for init_coin / init_contract / init_da_message / root,          *)
(* "add" for the add_* / update_* call that follows).                      *)
(***************************************************************************)
\* Handler::new: output_index: 0
HandlerNew == [output_index |-> 0]

\* Option<u64>
Some(value) == [some |-> TRUE, value |-> value]
None == [some |-> FALSE, value |-> 0]

\* an increment that is forgotten
checked_add_stuck(output_index) == Some(output_index)

\* wrapping_add(1) in place of checked_add(1)
wrapping_add(output_index) == Some((output_index + 1) % (U64Max + 1))

\* self.output_index.checked_add(1): None on overflow of the u64
checked_add(output_index) ==
  IF output_index + 1 > U64Max THEN None ELSE Some(output_index + 1)

\* what a call of the handler ends in: Ok(()), Err(..), or the panic of
\* expect(..) on a None
Ok(handler, t) == [ok |-> TRUE, panic |-> FALSE, handler |-> handler, tx |-> t]
Err(handler, t) == [ok |-> FALSE, panic |-> FALSE, handler |-> handler, tx |-> t]
Panic(handler, t) == [ok |-> FALSE, panic |-> TRUE, handler |-> handler, tx |-> t]

\* a coin handler that stores the coin and forgets its commitment leaf
process_coin_no_root(handler, coin, t, fail) ==
  IF fail = "init" THEN Err(handler, Called(t, handler.output_index))
  ELSE LET r == init_coin(t, coin, handler.output_index) IN
    IF fail = "add" THEN Err(handler, r.tx)
    ELSE Ok([handler EXCEPT !.output_index = checked_add(@).value], r.tx)

\* ProcessState<CoinConfig>::process
process_coin(handler, coin, t, fail) ==
  IF fail = "init" THEN Err(handler, Called(t, handler.output_index))
  ELSE LET r == init_coin(t, coin, handler.output_index) IN
    IF fail = "add" THEN Err(handler, r.tx)
    ELSE LET next == checked_add(handler.output_index) IN
      IF ~next.some THEN Panic(handler, add_coin_root(r.tx, r.root))
      ELSE Ok([handler EXCEPT !.output_index = next.value],
              add_coin_root(r.tx, r.root))

\* a message handler that counts the message as an output
process_message_counting(handler, message, t, fail) ==
  IF fail = "init" THEN Err(handler, t)
  ELSE LET r == init_da_message(t, message) IN
    IF fail = "add" THEN Err(handler, r.tx)
    ELSE Ok([handler EXCEPT !.output_index = @ + 1], add_message_root(r.tx, r.root))

\* ProcessState<MessageConfig>::process
process_message(handler, message, t, fail) ==
  IF fail = "init" THEN Err(handler, t)
  ELSE LET r == init_da_message(t, message) IN
    IF fail = "add" THEN Err(handler, r.tx)
    ELSE Ok(handler, add_message_root(r.tx, r.root))

\* a contract handler that advances the counter before the store calls
process_contract_eager(handler, contract, t, fail) ==
  LET next == [handler EXCEPT !.output_index = checked_add(@).value] IN
  IF fail = "init" THEN Err(next, Called(t, handler.output_index))
  ELSE LET t1 == init_contract(t, contract, handler.output_index) IN
    IF fail = "add" THEN Err(next, t1)
    ELSE Ok(next, add_contract_id(t1, contract.contract_id))

\* ProcessState<ContractConfig>::process
process_contract(handler, contract, t, fail) ==
  IF fail = "init" THEN Err(handler, Called(t, handler.output_index))
  ELSE LET t1 == init_contract(t, contract, handler.output_index) IN
    IF fail = "add" THEN Err(handler, t1)
    ELSE LET next == checked_add(handler.output_index) IN
      IF ~next.some THEN Panic(handler, add_contract_id(t1, contract.contract_id))
      ELSE Ok([handler EXCEPT !.output_index = next.value],
              add_contract_id(t1, contract.contract_id))

\* a root computed from the entries of every contract, not of the one contract
process_contract_id_all_entries(handler, item, t, store, fail) ==
  IF fail # "none" THEN Err(handler, t)
  ELSE Ok(handler, add_contract_root(t,
            <<"contract", item, TxView(store, t).contract_state,
              TxView(store, t).contract_balance>>))

\* ProcessState<ContractId>::process; the transaction reads through the store
process_contract_id(handler, item, t, store, fail) ==
  IF fail = "init" THEN Err(handler, t)
  ELSE LET root == ContractRefRoot(TxView(store, t), item) IN
    IF fail = "add" THEN Err(handler, t)
    ELSE Ok(handler, add_contract_root(t, root))

\* a group-level handler that counts the group as an output
process_group_contract_state_counting(handler, group, t, fail) ==
  IF fail # "none" THEN Err(handler, t)
  ELSE Ok([handler EXCEPT !.output_index = @ + 1], update_contract_states(t, group))

\* ProcessStateGroup<ContractStateConfig>::process_group
process_group_contract_state(handler, group, t, fail) ==
  IF fail # "none" THEN Err(handler, t)
  ELSE Ok(handler, update_contract_states(t, group))

\* ProcessStateGroup<ContractBalanceConfig>::process_group
process_group_contract_balance(handler, group, t, fail) ==
  IF fail # "none" THEN Err(handler, t)
  ELSE Ok(handler, update_contract_balances(t, group))

\* ProcessState<T>::process of the record-level types
process(ty, handler, item, t, store, fail) ==
  CASE ty = "CoinConfig" -> process_coin(handler, item, t, fail)
    [] ty = "MessageConfig" -> process_message(handler, item, t, fail)
    [] ty = "ContractConfig" -> process_contract(handler, item, t, fail)
    [] ty = "ContractId" -> process_contract_id(handler, item, t, store, fail)

\* the record-level types: the handler is called once per record, in list
\* order, and stops at the first Err; fail_at names the record whose call
\* fails (0: none)
RECURSIVE process_each(_, _, _, _, _, _, _)
process_each(ty, handler, data, t, store, fail_at, fail) ==
  IF data = <<>> THEN Ok(handler, t)
  ELSE LET r == process(ty, handler, Head(data), t, store,
                        IF fail_at = 1 THEN fail ELSE "none") IN
    IF ~r.ok THEN r
    ELSE process_each(ty, r.handler, Tail(data), r.tx, store, fail_at - 1, fail)

\* ProcessStateGroup<T>::process_group of every type
process_group(ty, handler, data, t, store, fail_at, fail) ==
  CASE ty = "ContractStateConfig" ->
         process_group_contract_state(handler, data, t,
                                      IF fail_at = 0 THEN "none" ELSE fail)
    [] ty = "ContractBalanceConfig" ->
         process_group_contract_balance(handler, data, t,
                                        IF fail_at = 0 THEN "none" ELSE fail)
    [] OTHER -> process_each(ty, handler, data, t, store, fail_at, fail)

(***************************************************************************)
(* State.                                                                  *)
(***************************************************************************)
VARIABLES
  snapshot,      \* the snapshot the load is run on
  db,            \* the store: records, commitment leaves, progress cursors
  pc,            \* where each worker's runner is
  skip_cursor,   \* the progress cursor each runner read when it was created
  pos,           \* number of elements each runner has taken from its sequence
  handler,       \* the Handler of each runner
  tx,            \* the open transaction of each runner, or NoTx
  cancel_token,  \* the shared CancellationToken
  result,        \* what the load returned to its caller, or "running"
  first_error,   \* the worker whose runner failed first, or "none"
  runs,          \* number of runs of the load so far on this store
  committed,     \* per resource, the group indices committed so far, in order
  passed,        \* per worker, the output_index values passed to init_* this run
  root_started,  \* whether the ContractsRoot runner was ever created
  stop_signal,   \* whether each runner was given a stop notification (Some)
  notified       \* number of times each runner fired its notification this run

VARIABLES
  codec_pc,           \* where the round trip of the codec is
  format,             \* "json" (row-streaming) or "parquet" (columnar)
  category,           \* the category written and read back
  group_size,         \* GroupGenerator::group_size
  num_groups,         \* GroupGenerator::num_groups
  decoder_group_size, \* the group size Decoder::json is given
  original,           \* the groups for_each_group generated and wrote
  files,              \* per category, what the encoder has put in its file
  writes,             \* number of Encoder write calls so far
  decoded             \* the groups read back from the decoder so far

VARIABLES
  config,        \* the StateConfig that is written
  json,          \* the string serde_json::to_string returned, or NoText
  deserialized,  \* what serde_json::from_str returned, or NotCalled
  config_file,          \* the content of state_config.json in the directory, or NoText
  loaded         \* what load_from_directory returned, or NotCalled

config_vars == <<config, json, deserialized, config_file, loaded>>

VARIABLES
  lone_handler,  \* a Handler that is handed records outside a runner
  lone_tx,       \* the transaction it writes to
  lone_status,   \* "ready", or how its last call ended: "Err", "Panic"
  lone_last,     \* the record type and the failing store call of the last call
  lone_count     \* number of calls so far

handler_vars == <<lone_handler, lone_tx, lone_status, lone_last, lone_count>>

VARIABLES
  signals,       \* StopSignals::signals: the kept notifications, as the
                 \* identities of their Arc allocations
  log            \* the calls made on the StopSignals and what they returned

signal_vars == <<signals, log>>

VARIABLES
  model,         \* what estimate_model returned
  cost           \* what dependent_cost returned

cost_vars == <<model, cost>>

VARIABLES
  chunks,        \* what genesis_contract_ids_iter yields: ids and errors
  root_groups    \* the group sequence made of it

chunk_vars == <<chunks, root_groups>>

codec_vars ==
  <<codec_pc, format, category, group_size, num_groups, decoder_group_size,
    original, files, writes, decoded>>

pipeline_vars ==
  <<snapshot, db, pc, skip_cursor, pos, handler, tx, cancel_token, result, first_error,
    runs, committed, passed, root_started, stop_signal, notified>>

Terminal == {"Success", "Canceled", "Error"}

\* the in-memory state of a process that has just started
FreshPc == [t \in AllWorkers |-> "unspawned"]
FreshCursor == [t \in AllWorkers |-> NoProgress]
FreshPos == [t \in AllWorkers |-> 0]
FreshHandler == [t \in AllWorkers |-> HandlerNew]
FreshTx == [t \in AllWorkers |-> NoTx]
FreshPassed == [t \in AllWorkers |-> <<>>]
FreshStopSignal == [t \in AllWorkers |-> FALSE]
FreshNotified == [t \in AllWorkers |-> 0]

PipelineInit ==
  /\ snapshot \in Snapshots
  /\ db = EmptyDb
  /\ pc = FreshPc
  /\ skip_cursor = FreshCursor
  /\ pos = FreshPos
  /\ handler = FreshHandler
  /\ tx = FreshTx
  /\ cancel_token = FALSE
  /\ result = "running"
  /\ first_error = "none"
  /\ runs = 1
  /\ committed = [r \in Resources |-> <<>>]
  /\ passed = FreshPassed
  /\ root_started = FALSE
  /\ stop_signal = FreshStopSignal
  /\ notified = FreshNotified

(***************************************************************************)
(* GenesisWorkers: create_runner and the spawn_* functions.                *)
(***************************************************************************)
\* one Handler created once and handed to every runner
HandlerOfShared(t) == "CoinConfig"

\* one Handler, one UTXO counter, for the coins and the contracts runner
HandlerOfUtxoShared(t) ==
  IF t \in {"CoinConfig", "ContractConfig"} THEN "CoinConfig" ELSE t

\* create_runner: `let handler = Handler::new(..)`, a Handler owned by the
\* runner it is created for
HandlerOf(t) == t

\* a runner given a token of its own (CancellationToken::new()) instead of
\* a clone of the shared one
RunnerCancelledOwnToken(t) == FALSE

\* create_runner: the runner gets self.cancel_token.clone(), so it sees the
\* shared token's state
RunnerCancelled(t) == cancel_token

\* every runner, the ContractsRoot runner too, given a stop notification
StopSignalOfEvery(t) == TRUE

\* the stop_signal argument of create_runner: Some(stop_signal) from
\* spawn_worker, None from spawn_contracts_root_worker
StopSignalOf(t) == t \in Workers

\* the contract ids of the store, every group numbered 0
contract_ids_groups_stuck(ids) ==
  EnumerateStuck([i \in 1..Len(ids) |-> <<ids[i]>>])

\* an item of genesis_contract_ids_iter: Ok(id), or Err(..)
OkChunk(id) == [value |-> id]
ErrChunk == [error |-> "store"]

\* the ids numbered after the errors were left out
enumerate_ok_chunks(items) ==
  [i \in 1..Len(items) |->
     IF IsErr(items[i]) THEN items[i]
     ELSE Group(Cardinality({j \in 1..(i - 1) : ~IsErr(items[j])}),
                <<items[i].value>>)]

\* spawn_contracts_root_worker: chunks.into_iter().enumerate().map(|(index,
\* chunk)| { let data = vec![chunk?]; Ok(Group { index, data }) })
enumerate_chunks(items) ==
  [i \in 1..Len(items) |->
     IF IsErr(items[i]) THEN items[i] ELSE Group(i - 1, <<items[i].value>>)]

\* spawn_contracts_root_worker on the contract ids of the store, all of
\* them read without an error
contract_ids_groups(ids) == enumerate_chunks([i \in 1..Len(ids) |-> OkChunk(ids[i])])

\* the group sequence a worker's runner iterates over
GroupsOf(t) ==
  IF t = RootWorker THEN contract_ids_groups(db.contract_ids)
  ELSE StateReaderGroups(snapshot, t)

\* GenesisWorkers::create_runner followed by GenesisRunner::new, which reads
\* the progress cursor of the type's resource
create_runner(t) ==
  /\ stop_signal' = [stop_signal EXCEPT ![t] = StopSignalOf(t)]
  /\ handler' = [handler EXCEPT ![HandlerOf(t)] = HandlerNew]
  /\ skip_cursor' = [skip_cursor EXCEPT ![t] = db.progress[genesis_resource(t)]]
  /\ pos' = [pos EXCEPT ![t] = 0]
  /\ pc' = [pc EXCEPT ![t] = "queued"]

\* the order in which the orchestrator calls the spawn_* functions
SpawnOrder ==
  <<"CoinConfig", "MessageConfig", "ContractConfig", "ContractStateConfig",
    "ContractBalanceConfig">>

\* spawn_coins_worker ... spawn_contract_balance_worker: the group sequence is
\* taken from the state reader with unwrap(), then spawn_worker creates the
\* runner and hands it to the pool
SpawnWorker(t) ==
  /\ result = "running"
  /\ UNCHANGED <<codec_vars, config_vars, handler_vars, signal_vars, cost_vars, chunk_vars>>
  /\ pc[t] = "unspawned"
  /\ \A i, j \in 1..Len(SpawnOrder) :
       (i < j /\ SpawnOrder[j] = t) => pc[SpawnOrder[i]] # "unspawned"
  /\ \E reader_ok \in BOOLEAN :
       IF reader_ok
       THEN /\ create_runner(t)
            /\ UNCHANGED <<snapshot, db, tx, cancel_token, result, first_error, runs,
                           committed, passed, root_started,
                 notified>>
       ELSE /\ result' = "Panic"
            /\ first_error' = t
            /\ UNCHANGED <<snapshot, db, pc, skip_cursor, pos, handler, tx, cancel_token,
                           runs, committed, passed, root_started,
                 stop_signal, notified>>

(***************************************************************************)
(* GenesisRunner::run, one group at a time.                                *)
(***************************************************************************)
\* run(self) consumes the runner: when it returns, the runner's iterator and
\* cursor copy are gone
RunnerDropped(t) ==
  /\ pos' = [pos EXCEPT ![t] = 0]
  /\ skip_cursor' = [skip_cursor EXCEPT ![t] = NoProgress]

\* the runner fails: it returns the error and the stop-broadcast is signalled
RunnerFails(t) ==
  /\ pc' = [pc EXCEPT ![t] = "Error"]
  /\ tx' = [tx EXCEPT ![t] = NoTx]
  /\ RunnerDropped(t)
  /\ cancel_token' = TRUE
  /\ first_error' = IF first_error = "none" THEN t ELSE first_error

\* the runners that hold a thread of the pool
Executing == {t \in AllWorkers : pc[t] \in {"boundary", "inflight"}}

\* tokio_rayon::spawn(move || runner.run()): run() starts when a thread of
\* the pool is free and keeps the thread until it returns
RunnerStart(t) ==
  /\ result = "running"
  /\ UNCHANGED <<codec_vars, config_vars, handler_vars, signal_vars, cost_vars, chunk_vars>>
  /\ pc[t] = "queued"
  /\ Cardinality(Executing) < PoolSize
  /\ pc' = [pc EXCEPT ![t] = "boundary"]
  /\ UNCHANGED <<snapshot, db, skip_cursor, pos, handler, tx, cancel_token, result,
                 first_error, runs, committed, passed, root_started,
                 stop_signal, notified>>

\* at a group boundary: end on exhaustion (firing the stop notification the
\* runner was given), stop when cancelled, fail on an element that is a
\* decode error, skip a group the cursor covers, or open a transaction and
\* hand the group to the handler
RunnerNext(t) ==
  /\ result = "running"
  /\ UNCHANGED <<codec_vars, config_vars, handler_vars, signal_vars, cost_vars, chunk_vars>>
  /\ pc[t] = "boundary"
  /\ LET groups == GroupsOf(t) IN
     IF pos[t] >= Len(groups)
     THEN /\ pc' = [pc EXCEPT ![t] = "Success"]
          /\ RunnerDropped(t)
          /\ notified' = [notified EXCEPT ![t] = IF stop_signal[t] THEN @ + 1 ELSE @]
          /\ UNCHANGED <<snapshot, db, handler, tx, cancel_token, result,
                         first_error, runs, committed, passed, root_started,
                         stop_signal>>
     ELSE IF RunnerCancelled(t)
     THEN /\ pc' = [pc EXCEPT ![t] = "Canceled"]
          /\ RunnerDropped(t)
          /\ UNCHANGED <<snapshot, db, handler, tx, cancel_token, result,
                         first_error, runs, committed, passed, root_started,
                         stop_signal, notified>>
     ELSE IF IsErr(groups[pos[t] + 1])
     THEN /\ RunnerFails(t)
          /\ UNCHANGED <<snapshot, db, handler, result, runs, committed, passed,
                         root_started, stop_signal, notified>>
     ELSE IF groups[pos[t] + 1].index <= skip_cursor[t]
     THEN /\ pos' = [pos EXCEPT ![t] = @ + 1]
          /\ UNCHANGED <<snapshot, db, pc, skip_cursor, handler, tx, cancel_token, result,
                         first_error, runs, committed, passed, root_started,
                         stop_signal, notified>>
     ELSE \E fail_at \in 0..Len(groups[pos[t] + 1].data), fail \in {"init", "add"} :
          LET r == process_group(t, handler[HandlerOf(t)], groups[pos[t] + 1].data,
                                 EmptyTx, db, fail_at, fail) IN
          /\ handler' = [handler EXCEPT ![HandlerOf(t)] = r.handler]
          /\ passed' = [passed EXCEPT ![t] = @ \o r.tx.calls]
          /\ IF r.ok
             THEN /\ pc' = [pc EXCEPT ![t] = "inflight"]
                  /\ tx' = [tx EXCEPT ![t] = [r.tx EXCEPT !.calls = <<>>]]
                  /\ UNCHANGED <<skip_cursor, pos, cancel_token, first_error, result>>
             ELSE IF r.panic
             THEN /\ result' = "Panic"
                  /\ UNCHANGED <<pc, tx, skip_cursor, pos, cancel_token, first_error>>
             ELSE /\ RunnerFails(t)
                  /\ UNCHANGED result
          /\ UNCHANGED <<snapshot, db, runs, committed, root_started, stop_signal,
                         notified>>

\* commit of the open transaction: the group's writes and the cursor land
\* together, or the commit fails and nothing lands
RunnerCommit(t) ==
  /\ result = "running"
  /\ UNCHANGED <<codec_vars, config_vars, handler_vars, signal_vars, cost_vars, chunk_vars>>
  /\ pc[t] = "inflight"
  /\ \E commit_ok \in BOOLEAN :
       IF commit_ok
       THEN /\ db' = CommitTx(db, tx[t], genesis_resource(t),
                              GroupsOf(t)[pos[t] + 1].index)
            /\ committed' = [committed EXCEPT ![genesis_resource(t)] =
                               Append(@, GroupsOf(t)[pos[t] + 1].index)]
            /\ pos' = [pos EXCEPT ![t] = @ + 1]
            /\ pc' = [pc EXCEPT ![t] = "boundary"]
            /\ tx' = [tx EXCEPT ![t] = NoTx]
            /\ UNCHANGED <<skip_cursor, cancel_token, first_error>>
       ELSE /\ RunnerFails(t)
            /\ UNCHANGED <<db, committed>>
  /\ UNCHANGED <<snapshot, handler, result, runs, passed, root_started,
                 stop_signal, notified>>

(***************************************************************************)
(* The orchestrator: it spawns the five workers, joins them, and runs the  *)
(* ContractsRoot worker as a later stage.                                  *)
(***************************************************************************)
AllJoined == \A t \in Workers : pc[t] \in Terminal

\* a barrier that waits for the Contracts worker alone
RootBarrierContractsOnly == pc["ContractConfig"] = "Success"

\* the condition under which the ContractsRoot stage is entered
RootBarrier == \A t \in Workers : pc[t] = "Success"

\* a worker failed: the caller gets the first error
JoinFailed ==
  /\ result = "running"
  /\ UNCHANGED <<codec_vars, config_vars, handler_vars, signal_vars, cost_vars, chunk_vars>>
  /\ AllJoined
  /\ \E t \in Workers : pc[t] = "Error"
  /\ result' = "Error"
  /\ UNCHANGED <<snapshot, db, pc, skip_cursor, pos, handler, tx, cancel_token,
                 first_error, runs, committed, passed, root_started,
                 stop_signal, notified>>

\* no worker failed, one was cancelled: the load ends Canceled
JoinCanceled ==
  /\ result = "running"
  /\ UNCHANGED <<codec_vars, config_vars, handler_vars, signal_vars, cost_vars, chunk_vars>>
  /\ AllJoined
  /\ \A t \in Workers : pc[t] # "Error"
  /\ \E t \in Workers : pc[t] = "Canceled"
  /\ result' = "Canceled"
  /\ UNCHANGED <<snapshot, db, pc, skip_cursor, pos, handler, tx, cancel_token,
                 first_error, runs, committed, passed, root_started,
                 stop_signal, notified>>

\* spawn_contracts_root_worker: create_runner(contract_ids, None), run() on
\* the pool
SpawnContractsRootWorker ==
  /\ result = "running"
  /\ UNCHANGED <<codec_vars, config_vars, handler_vars, signal_vars, cost_vars, chunk_vars>>
  /\ pc[RootWorker] = "unspawned"
  /\ RootBarrier
  /\ create_runner(RootWorker)
  /\ root_started' = TRUE
  /\ UNCHANGED <<snapshot, db, tx, cancel_token, result, first_error, runs, committed,
                 passed,
                 notified>>

\* the ContractsRoot runner ended: its outcome is the outcome of the load
JoinRoot ==
  /\ result = "running"
  /\ UNCHANGED <<codec_vars, config_vars, handler_vars, signal_vars, cost_vars, chunk_vars>>
  /\ pc[RootWorker] \in Terminal
  /\ result' = pc[RootWorker]
  /\ UNCHANGED <<snapshot, db, pc, skip_cursor, pos, handler, tx, cancel_token,
                 first_error, runs, committed, passed, root_started,
                 stop_signal, notified>>

\* the shared cancellation token is triggered from outside
Cancel ==
  /\ result = "running"
  /\ UNCHANGED <<codec_vars, config_vars, handler_vars, signal_vars, cost_vars, chunk_vars>>
  /\ ~cancel_token
  /\ cancel_token' = TRUE
  /\ UNCHANGED <<snapshot, db, pc, skip_cursor, pos, handler, tx, result, first_error,
                 runs, committed, passed, root_started,
                 stop_signal, notified>>

\* the process ends (crash, kill, or return to the caller) and the load is
\* run again on the same snapshot and store: only the store survives
Restart ==
  /\ runs < MaxRuns
  /\ UNCHANGED <<codec_vars, config_vars, handler_vars, signal_vars, cost_vars, chunk_vars>>
  /\ runs' = runs + 1
  /\ pc' = FreshPc
  /\ skip_cursor' = FreshCursor
  /\ pos' = FreshPos
  /\ handler' = FreshHandler
  /\ tx' = FreshTx
  /\ passed' = FreshPassed
  /\ stop_signal' = FreshStopSignal
  /\ notified' = FreshNotified
  /\ cancel_token' = FALSE
  /\ result' = "running"
  /\ first_error' = "none"
  /\ UNCHANGED <<snapshot, db, committed, root_started>>

(***************************************************************************)
(* The grouped snapshot codec: the group generator of the round-trip       *)
(* tests, the Encoder and the Decoder in their two formats.                *)
(***************************************************************************)
Formats == {"json", "parquet"}

\* the fields of the records of each category, in declaration order
Schema(t) ==
  CASE t = "CoinConfig" -> <<"owner", "utxo">>
    [] t = "MessageConfig" -> <<"nonce">>
    [] t = "ContractConfig" -> <<"contract_id", "utxo", "state", "balances">>
    [] t = "ContractStateConfig" -> <<"contract_id", "key", "value">>
    [] t = "ContractBalanceConfig" -> <<"contract_id", "asset_id", "amount">>

\* Randomize::randomize: the records the generator draws from
Randomize(t) ==
  CASE t = "CoinConfig" -> {CoinRecord(1), CoinRecord(2)}
    [] t = "MessageConfig" -> {MessageRecord(1), MessageRecord(2)}
    [] t = "ContractConfig" -> {ContractRecord(1), ContractRecord(2)}
    [] t = "ContractStateConfig" ->
         {ContractStateRecord(1, "k1", "v1"), ContractStateRecord(1, "k2", "v2")}
    [] t = "ContractBalanceConfig" ->
         {ContractBalanceRecord(1, "a1", 5), ContractBalanceRecord(2, "a1", 7)}

\* chunks() that cuts the first chunk one record short
generate_groups_short_first(stream, size, num) ==
  Enumerate([g \in 1..num |->
    IF g = 1 THEN SubSeq(stream, 1, size - 1)
    ELSE SubSeq(stream, (g - 1) * size, g * size - 1)])

\* GroupGenerator::generate_groups: the stream of random records cut into
\* chunks of group_size, enumerated, the first num_groups of them taken
generate_groups(stream, size, num) ==
  Enumerate([g \in 1..num |-> SubSeq(stream, (g - 1) * size + 1, g * size)])

\* a record as a JSON object: its fields, named, in declaration order
to_json(rec, fields) == [i \in 1..Len(fields) |-> <<fields[i], rec[fields[i]]>>]

\* the record a JSON object is parsed into
from_json(obj) ==
  [f \in {obj[i][1] : i \in DOMAIN obj} |->
     obj[CHOOSE i \in DOMAIN obj : obj[i][1] = f][2]]

\* a batch of records as a Parquet row group: one column per field
to_row_group(data, fields) ==
  [num_rows |-> Len(data),
   columns |-> [f \in {fields[i] : i \in DOMAIN fields} |->
                  [r \in 1..Len(data) |-> data[r][f]]]]

\* the records of a row group
from_row_group(rg) ==
  [r \in 1..rg.num_rows |-> [f \in DOMAIN rg.columns |-> rg.columns[f][r]]]

\* Encoder::write_coins, write_messages, ...: JSON appends the records of the
\* batch to the category's list, Parquet appends one row group to its file
EncoderWrite(fmt, file, data, fields) ==
  IF fmt = "json"
  THEN file \o [i \in 1..Len(data) |-> to_json(data[i], fields)]
  ELSE Append(file, to_row_group(data, fields))

\* number of groups the Decoder yields for a category
DecoderLen(fmt, file, size) ==
  IF fmt = "json" THEN (Len(file) + size - 1) \div size ELSE Len(file)

\* the k-th group (from 0) the Decoder yields for a category: JSON cuts the
\* category's list into chunks of the given group size, Parquet reads the
\* k-th row group
DecoderGroup(fmt, file, size, k) ==
  IF fmt = "json"
  THEN LET last == IF (k + 1) * size < Len(file) THEN (k + 1) * size ELSE Len(file)
       IN Group(k, [i \in 1..(last - k * size) |-> from_json(file[k * size + i])])
  ELSE Group(k, from_row_group(file[k + 1]))

\* assert_groups_identical: what the assertion compares
groups_identical(orig, read, skip) ==
  SubSeq(orig, skip + 1, Len(orig)) = SubSeq(read, skip + 1, Len(read))

NoFiles == [t \in Workers |-> <<>>]

\* a round trip that has not started: a generator and a decoder configured
CodecInit ==
  /\ codec_pc = "generate"
  /\ format \in Formats
  /\ category \in Workers
  /\ group_size \in 1..MaxGroupSize
  /\ num_groups \in 0..MaxNumGroups
  /\ decoder_group_size \in 1..MaxGroupSize
  /\ original = <<>>
  /\ files = NoFiles
  /\ writes = 0
  /\ decoded = <<>>

\* no round trip
CodecIdle ==
  /\ codec_pc = "idle"
  /\ format = "json"
  /\ category = "CoinConfig"
  /\ group_size = 1
  /\ num_groups = 0
  /\ decoder_group_size = 1
  /\ original = <<>>
  /\ files = NoFiles
  /\ writes = 0
  /\ decoded = <<>>

\* no load
PipelineIdle == PipelineInit /\ snapshot = "records"

\* for_each_group: let groups = self.generate_groups()
GenerateGroups ==
  /\ codec_pc = "generate"
  /\ \E stream \in [1..(group_size * num_groups) -> Randomize(category)] :
       original' = generate_groups(stream, group_size, num_groups)
  /\ codec_pc' = "encode"
  /\ UNCHANGED <<format, category, group_size, num_groups, decoder_group_size,
                 files, writes, decoded>>
  /\ UNCHANGED <<pipeline_vars, config_vars, handler_vars, signal_vars, cost_vars, chunk_vars>>

\* for_each_group: f(group.data.clone()) for the next group
WriteGroup ==
  /\ codec_pc = "encode"
  /\ writes < Len(original)
  /\ files' = [files EXCEPT ![category] =
       EncoderWrite(format, @, original[writes + 1].data, Schema(category))]
  /\ writes' = writes + 1
  /\ UNCHANGED <<codec_pc, format, category, group_size, num_groups,
                 decoder_group_size, original, decoded>>
  /\ UNCHANGED <<pipeline_vars, config_vars, handler_vars, signal_vars, cost_vars, chunk_vars>>

\* encoder.close() after the last write
EncoderClose ==
  /\ codec_pc = "encode"
  /\ writes = Len(original)
  /\ codec_pc' = "decode"
  /\ UNCHANGED <<format, category, group_size, num_groups, decoder_group_size,
                 original, files, writes, decoded>>
  /\ UNCHANGED <<pipeline_vars, config_vars, handler_vars, signal_vars, cost_vars, chunk_vars>>

\* the next element of the Decoder's sequence for the category
DecoderNext ==
  /\ codec_pc = "decode"
  /\ Len(decoded) < DecoderLen(format, files[category], decoder_group_size)
  /\ decoded' = Append(decoded,
       DecoderGroup(format, files[category], decoder_group_size, Len(decoded)))
  /\ UNCHANGED <<codec_pc, format, category, group_size, num_groups,
                 decoder_group_size, original, files, writes>>
  /\ UNCHANGED <<pipeline_vars, config_vars, handler_vars, signal_vars, cost_vars, chunk_vars>>

\* the Decoder's sequence is exhausted: collect_vec returns
DecoderEnd ==
  /\ codec_pc = "decode"
  /\ Len(decoded) = DecoderLen(format, files[category], decoder_group_size)
  /\ codec_pc' = "done"
  /\ UNCHANGED <<format, category, group_size, num_groups, decoder_group_size,
                 original, files, writes, decoded>>
  /\ UNCHANGED <<pipeline_vars, config_vars, handler_vars, signal_vars, cost_vars, chunk_vars>>

(***************************************************************************)
(* StateConfig and its JSON form (chain-config/src/config/state.rs).       *)
(***************************************************************************)
\* Option<T>: None, Some(value)
Nothing == <<>>
Just(value) == <<value>>

\* the fields of a record that are Option<..> and carry
\* #[skip_serializing_none]
OptionalFields ==
  {"coins", "contracts", "messages", "tx_id", "output_index", "state", "balances"}

\* CoinConfig, ContractConfig and MessageConfig values a StateConfig is built from
CoinConfigs ==
  {[tx_id |-> Nothing, output_index |-> Nothing, owner |-> "o1"],
   [tx_id |-> Just("t1"), output_index |-> Just(3), owner |-> "o1"]}

ContractConfigs ==
  {[contract_id |-> "c1", tx_id |-> tx_id, state |-> state, balances |-> balances] :
     tx_id \in {Nothing, Just("t1")},
     state \in {Nothing, Just(<<>>), Just(<<<<"k1", "v1">>>>)},
     balances \in {Nothing, Just(<<<<"a1", 5>>>>)}}

MessageConfigs == {[nonce |-> "n1"]}

\* Option<Vec<T>> over the values of a set: None, Some(vec![]), Some(vec![v])
OptionVec(values) == {Nothing, Just(<<>>)} \cup {Just(<<v>>) : v \in values}

StateConfigs ==
  [coins : OptionVec(CoinConfigs), contracts : OptionVec(ContractConfigs),
   messages : OptionVec(MessageConfigs)]

\* Serialize of a struct with #[skip_serializing_none]: a JSON object with a
\* member for every field that is not None
to_object(rec) ==
  [f \in {g \in DOMAIN rec : g \notin OptionalFields \/ rec[g] # Nothing} |->
     IF f \in OptionalFields THEN rec[f][1] ELSE rec[f]]

\* Deserialize of a struct: a missing member of an Option field is None
from_object(obj, fields) ==
  [f \in fields |->
     IF f \in OptionalFields
     THEN IF f \in DOMAIN obj THEN Just(obj[f]) ELSE Nothing
     ELSE obj[f]]

\* the fields of the records of a field of StateConfig
FieldsOf(f) ==
  CASE f = "coins" -> {"tx_id", "output_index", "owner"}
    [] f = "contracts" -> {"contract_id", "tx_id", "state", "balances"}
    [] f = "messages" -> {"nonce"}

\* a Serialize of StateConfig that also skips the fields that are Some(vec![])
serialize_skip_empty(cfg) ==
  [f \in {g \in DOMAIN cfg : cfg[g] # Nothing /\ cfg[g] # Just(<<>>)} |->
     [i \in 1..Len(cfg[f][1]) |-> to_object(cfg[f][1][i])]]

\* #[skip_serializing_none] #[derive(Serialize)] struct StateConfig: the JSON
\* object of a StateConfig
serialize(cfg) ==
  [f \in DOMAIN to_object(cfg) |->
     [i \in 1..Len(cfg[f][1]) |-> to_object(cfg[f][1][i])]]

\* #[derive(Deserialize)] struct StateConfig: the StateConfig of a JSON object
deserialize(obj) ==
  [f \in {"coins", "contracts", "messages"} |->
     IF f \in DOMAIN obj
     THEN Just([i \in 1..Len(obj[f]) |-> from_object(obj[f][i], FieldsOf(f))])
     ELSE Nothing]

\* JSON text: serde_json::to_string is compact, to_writer_pretty is indented
NoText == [text |-> "none"]
Text(pretty, value) == [text |-> "json", pretty |-> pretty, value |-> value]

NotCalled == [called |-> FALSE]
Returned(value) == [called |-> TRUE, ok |-> TRUE, value |-> value]
Failed(error) == [called |-> TRUE, ok |-> FALSE, error |-> error]

\* serde_json::from_str / from_slice
from_json_text(text) == Returned(deserialize(text.value))

\* StateConfig::load_from_directory: std::fs::read(..)? then from_slice
load_from_directory(content) ==
  IF content.text = "none" THEN Failed("io") ELSE from_json_text(content)

\* StateConfig::create_config_file: File::create then to_writer_pretty
create_config_file(cfg) == Text(TRUE, serialize(cfg))

ConfigInit ==
  /\ config \in StateConfigs
  /\ json = NoText
  /\ deserialized = NotCalled
  /\ config_file = NoText
  /\ loaded = NotCalled

\* no StateConfig at hand
ConfigIdle ==
  /\ config = [coins |-> Nothing, contracts |-> Nothing, messages |-> Nothing]
  /\ json = NoText
  /\ deserialized = NotCalled
  /\ config_file = NoText
  /\ loaded = NotCalled

\* let json = serde_json::to_string(&config).unwrap()
SerdeToString ==
  /\ json.text = "none"
  /\ json' = Text(FALSE, serialize(config))
  /\ UNCHANGED <<config, deserialized, config_file, loaded>>
  /\ UNCHANGED <<pipeline_vars, codec_vars, handler_vars, signal_vars, cost_vars, chunk_vars>>

\* serde_json::from_str(json.as_str()).unwrap()
SerdeFromStr ==
  /\ json.text # "none"
  /\ ~deserialized.called
  /\ deserialized' = from_json_text(json)
  /\ UNCHANGED <<config, json, config_file, loaded>>
  /\ UNCHANGED <<pipeline_vars, codec_vars, handler_vars, signal_vars, cost_vars, chunk_vars>>

\* disk_config.create_config_file(&tmp_file).unwrap()
CreateConfigFile ==
  /\ config_file.text = "none"
  /\ config_file' = create_config_file(config)
  /\ UNCHANGED <<config, json, deserialized, loaded>>
  /\ UNCHANGED <<pipeline_vars, codec_vars, handler_vars, signal_vars, cost_vars, chunk_vars>>

\* StateConfig::load_from_directory(&tmp_file)
LoadFromDirectory ==
  /\ loaded.called => (~loaded.ok /\ config_file.text # "none")
  /\ loaded' = load_from_directory(config_file)
  /\ UNCHANGED <<config, json, deserialized, config_file>>
  /\ UNCHANGED <<pipeline_vars, codec_vars, handler_vars, signal_vars, cost_vars, chunk_vars>>

(***************************************************************************)
(* A Handler, from Handler::new, handed coin and contract records one after *)
(* the other until its counter is exhausted.                               *)
(***************************************************************************)
LoneInit ==
  /\ lone_handler = HandlerNew
  /\ lone_tx = EmptyTx
  /\ lone_status = "ready"
  /\ lone_last = [ty |-> "none", fail |-> "none"]
  /\ lone_count = 0

\* no such handler
LoneIdle == LoneInit

\* handler.process(record, tx) of a coin or a contract
ProcessRecord ==
  /\ lone_status = "ready"
  /\ lone_count < MaxRecords
  /\ \E ty \in {"CoinConfig", "ContractConfig"}, fail \in {"none", "init", "add"} :
     \E record \in Randomize(ty) :
       LET r == process(ty, lone_handler, record, lone_tx, EmptyDb, fail) IN
       /\ lone_handler' = r.handler
       /\ lone_tx' = r.tx
       /\ lone_status' = IF r.ok THEN "ready" ELSE IF r.panic THEN "Panic" ELSE "Err"
       /\ lone_last' = [ty |-> ty, fail |-> fail]
  /\ lone_count' = lone_count + 1
  /\ UNCHANGED <<pipeline_vars, codec_vars, config_vars, signal_vars, cost_vars, chunk_vars>>

(***************************************************************************)
(* StopSignals: the notifications handed to the workers.                   *)
(***************************************************************************)
\* Arc::new(Notify::new()): a new allocation, told apart from the earlier
\* ones by the number of its creation
ArcNew(calls) == 1 + Cardinality({k \in 1..Len(calls) : calls[k].op = "add"})

\* StopSignals::add: the signal is pushed (a clone of the Arc: the same
\* allocation) and returned
add(vec, signal) == [signals |-> Append(vec, signal), value |-> signal]

\* an iterator that takes the notifications from the front
next_front(vec) ==
  IF vec = <<>> THEN [signals |-> vec, item |-> None]
  ELSE [signals |-> Tail(vec), item |-> Some(Head(vec))]

\* Iterator::next of StopSignals: self.signals.pop()
next(vec) ==
  IF vec = <<>> THEN [signals |-> vec, item |-> None]
  ELSE [signals |-> SubSeq(vec, 1, Len(vec) - 1), item |-> Some(vec[Len(vec)])]

\* StopSignals::new
SignalsInit ==
  /\ signals = <<>>
  /\ log = <<>>

\* no StopSignals at hand
SignalsIdle == SignalsInit

StopSignalsAdd ==
  /\ Len(log) < MaxCalls
  /\ LET r == add(signals, ArcNew(log)) IN
     /\ signals' = r.signals
     /\ log' = Append(log, [op |-> "add", item |-> Some(r.value)])
  /\ UNCHANGED <<pipeline_vars, codec_vars, config_vars, handler_vars, cost_vars, chunk_vars>>

StopSignalsNext ==
  /\ Len(log) < MaxCalls
  /\ LET r == next(signals) IN
     /\ signals' = r.signals
     /\ log' = Append(log, [op |-> "next", item |-> r.item])
  /\ UNCHANGED <<pipeline_vars, codec_vars, config_vars, handler_vars, cost_vars, chunk_vars>>

(***************************************************************************)
(* dependent_cost: the cost of an operation from the estimated model.      *)
(* An f64 is a fraction num / den (den > 0) or NaN.                        *)
(***************************************************************************)
Frac(num, den) == [nan |-> FALSE, num |-> num, den |-> den]
NaN == [nan |-> TRUE, num |-> 0, den |-> 1]

\* the f64 values the coefficients are drawn from
Slopes == {NaN} \cup {Frac(n, Scale) : n \in -MaxSlope..MaxSlope}
Intercepts == {NaN} \cup {Frac(n, Scale) : n \in -MaxIntercept..MaxIntercept}

\* enum Model, as dependent_cost reads it
Models ==
  {[kind |-> "Zero"], [kind |-> "Quadratic"], [kind |-> "Other"]}
    \cup {[kind |-> "Constant", y |-> y] : y \in Intercepts}
    \cup {[kind |-> "Linear", slope |-> a, intercept |-> b] :
            a \in Slopes, b \in Intercepts}

\* the comparisons of an f64 with 0.0 and 1.0: false for NaN
gt_zero(x) == ~x.nan /\ x.num > 0
lt_one(x) == ~x.nan /\ x.num < x.den
ge_one(x) == ~x.nan /\ x.num >= x.den

\* f64::max(self, 0.0): the other operand if one is NaN
max_zero(x) == IF x.nan \/ x.num < 0 THEN Frac(0, 1) ELSE x

\* 1.0 / slope, of a slope > 0
inverse(x) == Frac(x.den, x.num)

\* a rounding towards zero
trunc(x) ==
  IF x.nan THEN NaN
  ELSE IF x.num >= 0 THEN Frac(x.num \div x.den, 1)
  ELSE Frac(-((-x.num) \div x.den), 1)

\* f64::round: to the nearest integer, half-way cases away from zero
round(x) ==
  IF x.nan THEN NaN
  ELSE IF x.num >= 0 THEN Frac((2 * x.num + x.den) \div (2 * x.den), 1)
  ELSE Frac(-((2 * (-x.num) + x.den) \div (2 * x.den)), 1)

\* `as u64` of an f64 that is an integer: saturating, NaN gives 0
as_u64(x) ==
  IF x.nan \/ x.num < 0 THEN 0
  ELSE IF x.num > U64Max THEN U64Max
  ELSE x.num

\* enum DependentCost
LightOperation(base, units_per_gas) ==
  [variant |-> "LightOperation", base |-> base, units_per_gas |-> units_per_gas]
HeavyOperation(base, gas_per_unit) ==
  [variant |-> "HeavyOperation", base |-> base, gas_per_unit |-> gas_per_unit]

\* expect("Unable to evaluate model") on a None
CostPanic == [variant |-> "panic"]

\* dependent_cost, from what estimate_model returned
dependent_cost(estimate) ==
  IF estimate = Nothing THEN CostPanic
  ELSE LET m == estimate[1] IN
    CASE m.kind = "Zero" -> HeavyOperation(0, 0)
      [] m.kind = "Constant" -> HeavyOperation(as_u64(round(max_zero(m.y))), 0)
      [] m.kind = "Linear" ->
           IF gt_zero(m.slope) /\ lt_one(m.slope)
           THEN LightOperation(as_u64(round(max_zero(m.intercept))),
                               as_u64(round(inverse(m.slope))))
           ELSE IF ge_one(m.slope)
           THEN HeavyOperation(as_u64(round(max_zero(m.intercept))),
                               as_u64(round(m.slope)))
           ELSE HeavyOperation(as_u64(round(m.intercept)), 0)
      [] m.kind = "Quadratic" -> HeavyOperation(0, 0)
      [] m.kind = "Other" -> HeavyOperation(0, 0)

\* estimate_model(&data): Some(model), or None
CostInit ==
  /\ model \in {Nothing} \cup {Just(m) : m \in Models}
  /\ cost = Nothing

\* no cost to compute
CostIdle ==
  /\ model = Nothing
  /\ cost = Nothing

DependentCostCall ==
  /\ cost = Nothing
  /\ cost' = Just(dependent_cost(model))
  /\ UNCHANGED model
  /\ UNCHANGED <<pipeline_vars, codec_vars, config_vars, handler_vars, signal_vars, chunk_vars>>

(***************************************************************************)
(* The group sequence of the ContractsRoot worker, from an iterator that   *)
(* may yield errors.                                                       *)
(***************************************************************************)
RECURSIVE SeqsUpTo(_, _)
SeqsUpTo(S, n) ==
  IF n = 0 THEN {<<>>}
  ELSE LET shorter == SeqsUpTo(S, n - 1) IN
       shorter \cup {Append(q, x) : q \in shorter, x \in S}

\* self.db.genesis_contract_ids_iter()
ChunksInit ==
  /\ chunks \in SeqsUpTo({OkChunk(1), OkChunk(2), ErrChunk}, MaxChunks)
  /\ root_groups = Nothing

\* no iterator at hand
ChunksIdle ==
  /\ chunks = <<>>
  /\ root_groups = Nothing

\* the group sequence handed to create_runner, collected
ContractIdsGroups ==
  /\ root_groups = Nothing
  /\ root_groups' = Just(enumerate_chunks(chunks))
  /\ UNCHANGED chunks
  /\ UNCHANGED <<pipeline_vars, codec_vars, config_vars, handler_vars, signal_vars,
                 cost_vars>>

\* the types with an impl of ProcessState
RecordTypes == {"CoinConfig", "MessageConfig", "ContractConfig", "ContractId"}

\* the records of a record-level type a handler is handed
RecordsOf(ty) == IF ty = "ContractId" THEN {1, 2} ELSE Randomize(ty)

\* handler.process(record, tx) of a record of any record-level type
ProcessAny ==
  /\ lone_status = "ready"
  /\ lone_count < MaxSteps
  /\ \E ty \in RecordTypes, fail \in {"none", "init", "add"} :
     \E record \in RecordsOf(ty) :
       LET r == process(ty, lone_handler, record, lone_tx, EmptyDb, fail) IN
       /\ lone_handler' = r.handler
       /\ lone_tx' = r.tx
       /\ lone_status' = IF r.ok THEN "ready" ELSE IF r.panic THEN "Panic" ELSE "Err"
       /\ lone_last' = [ty |-> ty, fail |-> fail]
  /\ lone_count' = lone_count + 1
  /\ UNCHANGED <<pipeline_vars, codec_vars, config_vars, signal_vars, cost_vars, chunk_vars>>

(***************************************************************************)
(* The specifications: the load, and the round trip of the codec.          *)
(***************************************************************************)
vars == <<pipeline_vars, codec_vars, config_vars, handler_vars, signal_vars, cost_vars, chunk_vars>>

Init == PipelineInit /\ CodecIdle /\ ConfigIdle /\ LoneIdle /\ SignalsIdle /\ CostIdle /\ ChunksIdle

Next ==
  \/ \E t \in Workers : SpawnWorker(t)
  \/ \E t \in AllWorkers : RunnerStart(t)
  \/ \E t \in AllWorkers : RunnerNext(t)
  \/ \E t \in AllWorkers : RunnerCommit(t)
  \/ JoinFailed
  \/ JoinCanceled
  \/ SpawnContractsRootWorker
  \/ JoinRoot
  \/ Cancel
  \/ Restart

Spec == Init /\ [][Next]_vars

\* one run of the process: no kill and rerun
NextRun ==
  \/ \E t \in Workers : SpawnWorker(t)
  \/ \E t \in AllWorkers : RunnerStart(t)
  \/ \E t \in AllWorkers : RunnerNext(t)
  \/ \E t \in AllWorkers : RunnerCommit(t)
  \/ JoinFailed
  \/ JoinCanceled
  \/ SpawnContractsRootWorker
  \/ JoinRoot
  \/ Cancel

\* the thread pool runs every runner it was handed: a runner that can start
\* is started, a runner that holds a thread takes its next step
Fairness ==
  \A t \in AllWorkers :
    /\ WF_vars(RunnerStart(t))
    /\ WF_vars(RunnerNext(t))
    /\ WF_vars(RunnerCommit(t))

SpecLive == Init /\ [][NextRun]_vars /\ Fairness

InitCodec == PipelineIdle /\ CodecInit /\ ConfigIdle /\ LoneIdle /\ SignalsIdle /\ CostIdle /\ ChunksIdle

NextCodec ==
  \/ GenerateGroups
  \/ WriteGroup
  \/ EncoderClose
  \/ DecoderNext
  \/ DecoderEnd

SpecCodec == InitCodec /\ [][NextCodec]_vars

InitConfig == PipelineIdle /\ CodecIdle /\ ConfigInit /\ LoneIdle /\ SignalsIdle /\ CostIdle /\ ChunksIdle

NextConfig ==
  \/ SerdeToString
  \/ SerdeFromStr
  \/ CreateConfigFile
  \/ LoadFromDirectory

SpecConfig == InitConfig /\ [][NextConfig]_vars

InitHandler == PipelineIdle /\ CodecIdle /\ ConfigIdle /\ LoneInit /\ SignalsIdle /\ CostIdle /\ ChunksIdle

NextHandler == ProcessRecord

NextStep == ProcessAny

InitSignals ==
  PipelineIdle /\ CodecIdle /\ ConfigIdle /\ LoneIdle /\ SignalsInit /\ CostIdle
    /\ ChunksIdle

NextSignals ==
  \/ StopSignalsAdd
  \/ StopSignalsNext

SpecSignals == InitSignals /\ [][NextSignals]_vars

InitCost ==
  PipelineIdle /\ CodecIdle /\ ConfigIdle /\ LoneIdle /\ SignalsIdle /\ CostInit
    /\ ChunksIdle

NextCost == DependentCostCall

SpecCost == InitCost /\ [][NextCost]_vars

InitChunks ==
  PipelineIdle /\ CodecIdle /\ ConfigIdle /\ LoneIdle /\ SignalsIdle /\ CostIdle
    /\ ChunksInit

NextChunks == ContractIdsGroups

SpecChunks == InitChunks /\ [][NextChunks]_vars

SpecStep == InitHandler /\ [][NextStep]_vars

SpecHandler == InitHandler /\ [][NextHandler]_vars

(***************************************************************************)
(* What the properties speak about.                                        *)
(***************************************************************************)
\* the records of a group, by what identifies them in the store
RecordIds(ty, data) ==
  CASE ty = "CoinConfig" -> {data[i].owner : i \in 1..Len(data)}
    [] ty = "MessageConfig" -> {data[i].nonce : i \in 1..Len(data)}
    [] ty = "ContractConfig" -> {data[i].contract_id : i \in 1..Len(data)}
    [] OTHER -> {data[i] : i \in 1..Len(data)}

\* the contract records of the snapshot
SnapshotContracts ==
  LET groups == SnapshotData(snapshot, "ContractConfig") IN
  UNION {{groups[g][i] : i \in 1..Len(groups[g])} : g \in 1..Len(groups)}

\* the records of a category the store holds; the state and balance entries
\* embedded in contract records came with the Contracts category
StoreRecords(store, ty) ==
  CASE ty = "CoinConfig" -> {c.owner : c \in store.coins}
    [] ty = "MessageConfig" -> {m.nonce : m \in store.messages}
    [] ty = "ContractConfig" -> {c.contract_id : c \in store.contracts}
    [] ty = "ContractStateConfig" ->
         store.contract_state \ UNION {EmbeddedState(c) : c \in SnapshotContracts}
    [] ty = "ContractBalanceConfig" ->
         store.contract_balance \ UNION {EmbeddedBalances(c) : c \in SnapshotContracts}
    [] ty = "ContractId" ->
         {store.contract_roots[i][2] : i \in 1..Len(store.contract_roots)}

\* the records of the first k groups of a sequence
FirstGroups(ty, groups, k) ==
  UNION {RecordIds(ty, groups[i].data) : i \in 1..k}

\* the number of records of a group sequence
RECURSIVE NumRecords(_)
NumRecords(groups) ==
  IF groups = <<>> THEN 0 ELSE Len(Head(groups).data) + NumRecords(Tail(groups))

\* one runner run to the end on its own, without interruption
RECURSIVE LoadGroups(_, _, _, _, _)
LoadGroups(ty, groups, i, h, store) ==
  IF i > Len(groups) THEN store
  ELSE LET r == process_group(ty, h, groups[i].data, EmptyTx, store, 0, "none") IN
    LoadGroups(ty, groups, i + 1, r.handler,
               CommitTx(store, r.tx, genesis_resource(ty), groups[i].index))

RECURSIVE LoadWorkers(_, _, _)
LoadWorkers(snap, i, store) ==
  IF i > Len(SpawnOrder) THEN store
  ELSE LoadWorkers(snap, i + 1,
         LoadGroups(SpawnOrder[i], StateReaderGroups(snap, SpawnOrder[i]), 1,
                    HandlerNew, store))

\* the store one uninterrupted load of a snapshot into the empty store leaves
UninterruptedLoad(snap) ==
  LET store == LoadWorkers(snap, 1, EmptyDb) IN
  LoadGroups(RootWorker, contract_ids_groups(store.contract_ids), 1, HandlerNew,
             store)

\* the commitments of the store: the leaves folded for each category
Commitments(store) ==
  [Coins |-> store.coin_roots, Messages |-> store.message_roots,
   Contracts |-> store.contract_ids, ContractsRoot |-> store.contract_roots]

UtxoWorkers == {"CoinConfig", "ContractConfig"}

ContractWorkers == {"ContractConfig", "ContractStateConfig", "ContractBalanceConfig"}

(***************************************************************************)
(* Properties.                                                             *)
(***************************************************************************)
\* C1: a load that ends in success, after any number of kills and reruns on
\* the same snapshot and store, leaves the store (identities of coins and
\* contracts and commitments included) that one uninterrupted load leaves.
IdempotentResume == result = "Success" => db = UninterruptedLoad(snapshot)

ExactlyOnce ==
  \A t \in AllWorkers :
    LET c == committed[genesis_resource(t)] IN
    /\ \A i \in 1..Len(c) : c[i] = i - 1
    /\ pc[t] = "inflight" => GroupsOf(t)[pos[t] + 1].index = Len(c)
    /\ pc[t] = "Success" => Len(c) = Len(GroupsOf(t))

ExactlyOnceWitness ==
  /\ runs = 2
  /\ result = "Success"
  /\ snapshot = "records"
  /\ passed["CoinConfig"] = <<0>>
  /\ committed["Coins"] = [i \in 1..CoinGroups |-> i - 1]
  /\ Len(committed["ContractsRoot"]) = ContractsPerGroup

\* C4: the persisted cursor of every category is the index of the last group
\* committed (none: no cursor), it is the last index of the sequence once the
\* runner has ended in success, and no step lowers it.
CursorIsLastCommitted ==
  /\ \A r \in Resources :
       db.progress[r] =
         IF committed[r] = <<>> THEN NoProgress ELSE committed[r][Len(committed[r])]
  /\ \A t \in AllWorkers :
       pc[t] = "Success" => db.progress[genesis_resource(t)] = Len(GroupsOf(t)) - 1

MonotonicProgress ==
  /\ []CursorIsLastCommitted
  /\ [][\A r \in Resources : db'.progress[r] >= db.progress[r]]_vars

MonotonicProgressWitness ==
  /\ runs = 2
  /\ pc["CoinConfig"] = "Success"
  /\ passed["CoinConfig"] = <<0>>
  /\ db.progress["Coins"] = CoinGroups - 1

\* the runners that have not ended
Live == {"unspawned", "queued", "boundary", "inflight"}

\* C5, as claimed: once the token is triggered, a runner that has committed
\* exactly k groups (1 <= k < n) commits nothing more (the cursor stays k-1
\* and the store holds groups 0..k-1 only) and does not end in success.
CancellationOutcome ==
  [][\A t \in AllWorkers :
       LET k == Len(committed[genesis_resource(t)]) IN
       (cancel_token /\ pc[t] \in Live /\ k >= 1 /\ k < Len(GroupsOf(t))) =>
         /\ committed'[genesis_resource(t)] = committed[genesis_resource(t)]
         /\ db'.progress[genesis_resource(t)] = k - 1
         /\ pc'[t] # "Success"]_vars

\* the store holds exactly the records of the groups committed, the cursor is
\* the index of the last of them, and only a triggered token ends a runner
\* Canceled
StoreIsCommittedGroups ==
  \A t \in AllWorkers :
    LET k == Len(committed[genesis_resource(t)]) IN
    /\ db.progress[genesis_resource(t)] = k - 1
    /\ StoreRecords(db, t) = FirstGroups(t, GroupsOf(t), k)
    /\ pc[t] = "Canceled" => cancel_token

\* C5, amended: if the token is triggered while a runner that has committed
\* exactly k groups (1 <= k < n) is between groups, the runner handles no
\* further group and ends Canceled, with the cursor k-1 and exactly the
\* records of groups 0..k-1 in the store; a group that is in flight when the
\* token is triggered is still committed or fails.
CancelledBetweenGroups ==
  /\ []StoreIsCommittedGroups
  /\ [][\A t \in AllWorkers :
          LET k == Len(committed[genesis_resource(t)]) IN
          (cancel_token /\ pc[t] \in {"unspawned", "queued", "boundary"}
             /\ k >= 1 /\ k < Len(GroupsOf(t))) =>
            /\ committed'[genesis_resource(t)] = committed[genesis_resource(t)]
            /\ pc'[t] \notin {"inflight", "Success", "Error"}]_vars

CancelledBetweenGroupsWitness ==
  /\ pc["CoinConfig"] = "Canceled"
  /\ cancel_token
  /\ runs = 1
  /\ db.progress["Coins"] = 0
  /\ StoreRecords(db, "CoinConfig") = {1}
  /\ CoinGroups > 1

\* C6: the ContractsRoot runner exists only when the Contracts,
\* ContractStates and ContractBalances runners have all ended in success with
\* every group committed, and once it was started no group of these three
\* categories is committed.
RootAfterContracts ==
  pc[RootWorker] # "unspawned" =>
    \A t \in ContractWorkers :
      /\ pc[t] = "Success"
      /\ Len(committed[genesis_resource(t)]) = Len(GroupsOf(t))

ContractsRootBarrier ==
  /\ []RootAfterContracts
  /\ [][root_started =>
          \A t \in ContractWorkers :
            committed'[genesis_resource(t)] = committed[genesis_resource(t)]]_vars

ContractsRootBarrierWitness ==
  /\ snapshot = "contracts"
  /\ pc[RootWorker] = "inflight"
  /\ Cardinality(db.contract_state) = 2
  /\ Len(committed["ContractBalances"]) = 1

\* C7: the load returns success only if every runner ended in success, and
\* once a worker has failed (a failure to obtain its group sequence from the
\* state reader included) what the caller gets is the error of the first
\* failure.
FirstErrorWins ==
  /\ result = "Success" => \A t \in AllWorkers : pc[t] = "Success"
  /\ (result # "running" /\ first_error # "none") => result = "Error"

\* C8: one complete load of a snapshot into the empty store leaves, for every
\* category, the commitment the uninterrupted reference load leaves, however
\* the runners interleave.
Determinism ==
  (result = "Success" /\ runs = 1) =>
    Commitments(db) = Commitments(UninterruptedLoad(snapshot))

DeterminismWitness ==
  /\ result = "Success"
  /\ runs = 1
  /\ snapshot = "records"
  /\ Len(db.coin_roots) = CoinGroups
  /\ Len(db.contract_roots) = ContractsPerGroup

(***************************************************************************)
(* Properties of the codec (checked under SpecCodec).                      *)
(***************************************************************************)
\* the decoder cuts groups where the encoder's caller did: always so for
\* Parquet, for JSON when it is given the group size used at encode time
SameGrouping == format = "json" => decoder_group_size = group_size

\* C9: for both formats and each of the five categories, writing a sequence
\* of groups (one write call per group), closing the encoder and reading the
\* category back yields the same groups: as many groups, each with
\* record-for-record equal data in the same order (for JSON, when the decoder
\* is given the group size used at encode time).
RoundTrip ==
  (codec_pc = "done" /\ SameGrouping) =>
    /\ Len(decoded) = Len(original)
    /\ groups_identical(original, decoded, 0)
    /\ \A i \in 1..Len(decoded) : decoded[i].data = original[i].data

\* two groups of two records, not all alike, have made the round trip in JSON
RoundTripWitness ==
  /\ codec_pc = "done"
  /\ format = "json"
  /\ group_size = 2
  /\ decoder_group_size = 2
  /\ Len(original) = 2
  /\ original[1].data[1] # original[1].data[2]
  /\ original[1].data # original[2].data
  /\ decoded = original

\* the i-th group read back (from 0) has index i and holds no more than the
\* configured group size of records
IndexedFromZero ==
  \A i \in 1..Len(decoded) :
    /\ decoded[i].index = i - 1
    /\ Len(decoded[i].data) <=
         (IF format = "json" THEN decoder_group_size ELSE group_size)

\* the i-th group read back is the one written by the i-th write call
\* (from 0), whose position is its index
WrittenByCallOfIndex ==
  \A i \in 1..Len(decoded) :
    /\ i <= writes
    /\ decoded[i].index = original[i].index
    /\ decoded[i].data = original[i].data

\* C10, as claimed: for every category and both formats, the i-th group
\* yielded by the Decoder (from 0) has index i, the position of the
\* corresponding write call at encode time; indices are contiguous from 0 and
\* a group holds at most the configured group size of records.
GroupIndexAssignment == IndexedFromZero /\ WrittenByCallOfIndex

\* C10, amended: the groups read back are always indexed contiguously from 0
\* and hold at most the configured group size of records; the i-th group is
\* the one of the i-th write call for Parquet, and for JSON when the decoder
\* is given the group size used at encode time.
GroupIndexAssignmentSameGrouping ==
  /\ IndexedFromZero
  /\ SameGrouping => WrittenByCallOfIndex

\* two row groups have been written and read back from a Parquet file
GroupIndexAssignmentWitness ==
  /\ codec_pc = "done"
  /\ format = "parquet"
  /\ writes = 2
  /\ Len(decoded) = 2
  /\ decoded[2].index = 1
  /\ Len(decoded[2].data) = 2

(***************************************************************************)
(* Properties of the load, continued (checked under Spec).                 *)
(***************************************************************************)
\* the categories the snapshot has no file for
MissingCategories == {t \in Workers : SnapshotData(snapshot, t) = <<>>}

\* the commitment leaves folded for a category, in order
Leaves(store, t) ==
  CASE t = "CoinConfig" -> store.coin_roots
    [] t = "MessageConfig" -> store.message_roots
    [] t = "ContractConfig" -> store.contract_ids
    [] t = "ContractId" -> store.contract_roots
    [] OTHER -> <<>>

\* C11: a category the snapshot has no file for has the empty group sequence
\* and is no error: its worker can only end in success, the handler is never
\* invoked for it, no leaf is folded, the store and the cursor of the
\* category stay as they were, and if the load fails it is another worker
\* that failed.
MissingCategoryIsEmpty ==
  /\ \A t \in MissingCategories :
       /\ StateReaderGroups(snapshot, t) = <<>>
       /\ pc[t] \in {"unspawned", "queued", "boundary", "Success"}
       /\ tx[t] = NoTx
       /\ passed[t] = <<>>
       /\ committed[genesis_resource(t)] = <<>>
       /\ db.progress[genesis_resource(t)] = NoProgress
       /\ StoreRecords(db, t) = {}
       /\ Leaves(db, t) = <<>>
  /\ result = "Error" =>
       \E t \in AllWorkers \ MissingCategories : pc[t] = "Error"

\* a load of the snapshot without messages file has succeeded
MissingCategoryIsEmptyWitness ==
  /\ snapshot = "contracts"
  /\ result = "Success"
  /\ pc["MessageConfig"] = "Success"
  /\ db.message_roots = <<>>
  /\ Len(db.contract_roots) = ContractsPerGroup

\* C12: the load of the snapshot that embeds the state and balances of a
\* contract in its Contract record leaves the contracts, state entries,
\* balances and contract roots that the load of the snapshot with the same
\* entries as standalone groups leaves; the root of the contract is computed
\* from the embedded entries.
EmbeddedStandaloneEquivalence ==
  (snapshot = "embedded" /\ result = "Success") =>
    LET standalone == UninterruptedLoad("contracts") IN
    /\ db.contracts = standalone.contracts
    /\ db.contract_state = standalone.contract_state
    /\ db.contract_balance = standalone.contract_balance
    /\ db.contract_ids = standalone.contract_ids
    /\ db.contract_roots = standalone.contract_roots
    /\ \E i \in 1..Len(db.contract_roots) :
         /\ db.contract_roots[i][2] = 1
         /\ db.contract_roots[i][3] # {}
         /\ db.contract_roots[i][4] # {}

\* the embedded snapshot is loaded: state entries in the store, no
\* ContractState group ever committed
EmbeddedStandaloneEquivalenceWitness ==
  /\ snapshot = "embedded"
  /\ result = "Success"
  /\ Cardinality(db.contract_state) = Len(StateOfContract)
  /\ committed["ContractStates"] = <<>>
  /\ committed["ContractBalances"] = <<>>
  /\ Len(db.contract_roots) = ContractsPerGroup

\* the records of the commitment leaves folded for a category
LeafIds(store, t) ==
  LET leaves == Leaves(store, t) IN
  CASE t = "CoinConfig" -> {leaves[i][3] : i \in 1..Len(leaves)}
    [] t = "MessageConfig" -> {leaves[i][2] : i \in 1..Len(leaves)}
    [] t = "ContractConfig" -> {leaves[i] : i \in 1..Len(leaves)}
    [] t = "ContractId" -> {leaves[i][2] : i \in 1..Len(leaves)}
    [] OTHER -> {}

\* the categories whose handler folds a commitment leaf per record
LeafWorkers == {"CoinConfig", "MessageConfig", "ContractConfig", "ContractId"}

\* the state and balance entries embedded in the records of a contract group
EmbeddedEntries(t, data) ==
  IF t = "ContractConfig"
  THEN UNION {EmbeddedState(data[i]) \cup EmbeddedBalances(data[i]) : i \in 1..Len(data)}
  ELSE {}

\* C14: within a category groups are applied strictly in increasing index
\* order without overlap: the records of a group are handed to the handler,
\* and the group is in flight, only when every group before it is committed
\* and the cursor is the index before its own; a commit is the commit of the one group in
\* flight and appends the next index.
InOrderWithoutOverlap ==
  /\ [](\A t \in AllWorkers :
          pc[t] = "inflight" =>
            LET g == GroupsOf(t)[pos[t] + 1] IN
            /\ committed[genesis_resource(t)] = [i \in 1..g.index |-> i - 1]
            /\ db.progress[genesis_resource(t)] = g.index - 1)
  /\ [][\A t \in AllWorkers :
          /\ (pc[t] = "boundary" /\ runs' = runs /\ Len(passed'[t]) > Len(passed[t])) =>
               db.progress[genesis_resource(t)] = GroupsOf(t)[pos[t] + 1].index - 1
          /\ committed'[genesis_resource(t)] # committed[genesis_resource(t)] =>
               /\ pc[t] = "inflight"
               /\ pc'[t] = "boundary"
               /\ committed'[genesis_resource(t)] =
                    Append(committed[genesis_resource(t)],
                           Len(committed[genesis_resource(t)]))]_vars

\* the second coin group is in flight, the first committed
InOrderWithoutOverlapWitness ==
  /\ snapshot = "records"
  /\ pc["CoinConfig"] = "inflight"
  /\ pos["CoinConfig"] = 1
  /\ committed["Coins"] = <<0>>
  /\ pc["ContractConfig"] = "inflight"

\* C15: in every reachable state (after cancellation, handler error or
\* kill and rerun too), for every category and every group, the store holds
\* either all records and commitment leaves of the group with a cursor >=
\* the group's index, or none of the group's writes with a cursor < the
\* group's index.
GroupAtomicity ==
  \A t \in AllWorkers :
    LET groups == OkGroups(GroupsOf(t)) IN
    \A i \in 1..Len(groups) :
      LET ids == RecordIds(t, groups[i].data)
          embedded == EmbeddedEntries(t, groups[i].data)
          cursor == db.progress[genesis_resource(t)] IN
      \/ /\ cursor >= groups[i].index
         /\ ids \subseteq StoreRecords(db, t)
         /\ t \in LeafWorkers => ids \subseteq LeafIds(db, t)
         /\ embedded \subseteq db.contract_state \cup db.contract_balance
      \/ /\ cursor < groups[i].index
         /\ ids \cap StoreRecords(db, t) = {}
         /\ ids \cap LeafIds(db, t) = {}
         /\ embedded \cap (db.contract_state \cup db.contract_balance) = {}

\* the handler failed on the second coin group after init_coin had written
\* to the transaction: the first group is in the store, the second is not
GroupAtomicityWitness ==
  /\ snapshot = "records"
  /\ runs = 1
  /\ pc["CoinConfig"] = "Error"
  /\ passed["CoinConfig"] = <<0, 1>>
  /\ committed["Coins"] = <<0>>
  /\ Cardinality(db.coins) = 1

\* C16: when the handler returns an error for a record of a group, the
\* runner commits nothing of the group, leaves the cursor, ends with the
\* error and signals the stop; it is not retried and applies nothing
\* further in that run; a sibling at a group boundary then takes no further
\* group: it ends Canceled (or in success if its sequence was exhausted).
FailFast ==
  /\ [](\A t \in AllWorkers : pc[t] = "Error" => cancel_token /\ first_error # "none")
  /\ [][\A t \in AllWorkers :
          /\ (pc[t] = "boundary" /\ pc'[t] = "Error") =>
               /\ db' = db
               /\ committed' = committed
               /\ cancel_token'
          /\ (pc[t] = "Error" /\ runs' = runs) =>
               /\ pc'[t] = "Error"
               /\ passed'[t] = passed[t]
               /\ committed'[genesis_resource(t)] = committed[genesis_resource(t)]
          /\ (cancel_token /\ pc[t] = "boundary" /\ pc'[t] # "boundary"
                /\ runs' = runs) =>
               /\ pc'[t] \in {"Success", "Canceled"}
               /\ pc'[t] = "Success" =>
                    Len(committed[genesis_resource(t)]) = Len(GroupsOf(t))]_vars

\* the coin handler failed on the second group and the messages runner, not
\* yet at its group, stopped
FailFastWitness ==
  /\ snapshot = "records"
  /\ first_error = "CoinConfig"
  /\ pc["CoinConfig"] = "Error"
  /\ passed["CoinConfig"] = <<0, 1>>
  /\ pc["MessageConfig"] = "Canceled"
  /\ committed["Messages"] = <<>>

\* the runner of t, at a group boundary, takes the element of its sequence
\* that is a decode error
AtDecodeError(t) ==
  /\ pc[t] = "boundary"
  /\ pos[t] < Len(GroupsOf(t))
  /\ IsErr(GroupsOf(t)[pos[t] + 1])
  /\ pc'[t] # pc[t]
  /\ runs' = runs

\* C17: if the k-th element of a category's group sequence is a decode
\* error, then when the runner reaches it the groups 0..k-1, every group of
\* the file before the cut, are applied and committed and the cursor is
\* k-1; the runner ends there (with the error, unless it was cancelled),
\* applying nothing more; no group beyond the error is ever committed.
LazyFormatError ==
  /\ [](\A t \in Workers :
          Len(committed[genesis_resource(t)]) <= Len(OkGroups(GroupsOf(t))))
  /\ [][\A t \in Workers :
          AtDecodeError(t) =>
            /\ pc'[t] \in {"Error", "Canceled"}
            /\ ~cancel_token => (pc'[t] = "Error" /\ first_error' # "none")
            /\ committed[genesis_resource(t)] = [i \in 1..pos[t] |-> i - 1]
            /\ db.progress[genesis_resource(t)] = pos[t] - 1
            /\ pos[t] = Len(SnapshotData(snapshot, t))
            /\ FirstGroups(t, GroupsOf(t), pos[t]) \subseteq StoreRecords(db, t)
            /\ db' = db
            /\ committed' = committed]_vars

\* the coins file is cut after its groups: both are committed, then the
\* coins runner ends with the decode error
LazyFormatErrorWitness ==
  /\ snapshot = "truncated"
  /\ pc["CoinConfig"] = "Error"
  /\ first_error = "CoinConfig"
  /\ committed["Coins"] = [i \in 1..CoinGroups |-> i - 1]
  /\ db.progress["Coins"] = CoinGroups - 1
  /\ Cardinality(db.coins) = CoinGroups

\* C18: a runner that was given a stop notification fires it exactly once,
\* when its sequence is exhausted and it ends in success, and never more
\* than once in a run; the ContractsRoot runner is created without one and
\* fires none.
StopNotification ==
  /\ [](\A t \in Workers :
          /\ notified[t] <= 1
          /\ pc[t] = "Success" => (stop_signal[t] /\ notified[t] = 1)
          /\ pc[t] # "Success" => notified[t] = 0)
  /\ [](~stop_signal[RootWorker] /\ notified[RootWorker] = 0)
  /\ [][\A t \in AllWorkers :
          notified'[t] > notified[t] =>
            /\ pc[t] = "boundary"
            /\ pos[t] >= Len(GroupsOf(t))
            /\ pc'[t] = "Success"]_vars

\* every category runner has fired its notification and the ContractsRoot
\* runner has ended in success without one
StopNotificationWitness ==
  /\ snapshot = "records"
  /\ pc[RootWorker] = "Success"
  /\ Len(db.contract_roots) = ContractsPerGroup
  /\ \A t \in Workers : notified[t] = 1
  /\ notified[RootWorker] = 0

\* C19: after the ContractsRoot phase ended in success the store holds
\* exactly one root for each distinct contract id in it, none missing, none
\* twice, also when the phase was interrupted and resumed, and each root is
\* the root over the complete state and balance entries of its contract.
OneRootPerContract ==
  pc[RootWorker] = "Success" =>
    LET roots == db.contract_roots
        ids == {c.contract_id : c \in db.contracts} IN
    /\ ids = {db.contract_ids[i] : i \in 1..Len(db.contract_ids)}
    /\ {roots[i][2] : i \in 1..Len(roots)} = ids
    /\ Len(roots) = Cardinality(ids)
    /\ \A i \in 1..Len(roots) :
         /\ roots[i] = ContractRefRoot(db, roots[i][2])
         /\ roots[i] = ContractRefRoot(UninterruptedLoad(snapshot), roots[i][2])

\* the load was killed and run again, and the ContractsRoot phase of the
\* rerun ended in success
OneRootPerContractWitness ==
  /\ snapshot = "contracts"
  /\ runs = 2
  /\ pc[RootWorker] = "Success"
  /\ committed["ContractsRoot"] = [i \in 1..ContractsPerGroup |-> i - 1]
  /\ Len(db.contract_roots) = ContractsPerGroup
  /\ Cardinality(db.contract_state) = Len(StateOfContract)

\* the record a commitment leaf was folded for
LeafRecord(t, leaf) ==
  CASE t = "CoinConfig" -> leaf[3]
    [] t = "MessageConfig" -> leaf[2]
    [] t = "ContractConfig" -> leaf
    [] t = "ContractId" -> leaf[2]

\* the records of a list of leaves, in the order of the leaves
FoldedRecords(t, leaves) == [i \in 1..Len(leaves) |-> LeafRecord(t, leaves[i])]

\* the records of a group, in list order
RecordList(t, data) ==
  [i \in 1..Len(data) |->
     CASE t = "CoinConfig" -> data[i].owner
       [] t = "MessageConfig" -> data[i].nonce
       [] t = "ContractConfig" -> data[i].contract_id
       [] t = "ContractId" -> data[i]]

\* the records of the first k groups of a sequence, in (group index,
\* position in group) order
RECURSIVE AppliedRecords(_, _, _)
AppliedRecords(t, groups, k) ==
  IF k = 0 THEN <<>>
  ELSE AppliedRecords(t, groups, k - 1) \o RecordList(t, groups[k].data)

\* C21: for each record-level category the leaves of the accumulator are, in
\* order, one leaf per record of the committed groups in increasing (group
\* index, position in group) order, no record twice and none left out; the
\* leaves a group in flight has folded are those of its records in list
\* order.
CommitmentFoldOrder ==
  \A t \in LeafWorkers :
    /\ FoldedRecords(t, Leaves(db, t)) =
         AppliedRecords(t, GroupsOf(t), Len(committed[genesis_resource(t)]))
    /\ pc[t] = "inflight" =>
         FoldedRecords(t, Leaves(tx[t], t)) =
           RecordList(t, GroupsOf(t)[pos[t] + 1].data)

\* both coin groups and the group of two contracts are folded and the roots
\* of the contracts are being folded
CommitmentFoldOrderWitness ==
  /\ snapshot = "records"
  /\ Len(db.coin_roots) = CoinGroups
  /\ Len(db.contract_ids) = ContractsPerGroup
  /\ Len(db.message_roots) = 1
  /\ Len(db.contract_roots) = 1
  /\ pc[RootWorker] = "inflight"

\* a step of the runner of s: it starts, takes an element of its sequence,
\* or commits
RunnerStepped(s) ==
  /\ runs' = runs
  /\ pc[s] \in {"queued", "boundary", "inflight"}
  /\ (pc'[s] # pc[s] \/ pos'[s] # pos[s] \/ passed'[s] # passed[s])

\* C22: every runner owns a handler whose output_index is 0 when the runner
\* is created; creating a runner or a step of a runner never changes the
\* handler of another runner; the snapshot the runners read is never
\* changed.
NoSharedMutableState ==
  /\ [][snapshot' = snapshot]_vars
  /\ [][\A t \in AllWorkers :
          /\ (pc[t] = "unspawned" /\ pc'[t] = "queued") =>
               /\ handler'[t].output_index = 0
               /\ \A s \in AllWorkers \ {t} : handler'[s] = handler[s]
          /\ RunnerStepped(t) =>
               \A s \in AllWorkers \ {t} : handler'[s] = handler[s]]_vars

\* the coins runner and the contracts runner have each advanced a counter of
\* their own
NoSharedMutableStateWitness ==
  /\ snapshot = "records"
  /\ pc["CoinConfig"] = "inflight"
  /\ pos["CoinConfig"] = 1
  /\ handler["CoinConfig"].output_index = CoinGroups
  /\ pc["ContractConfig"] = "inflight"
  /\ handler["ContractConfig"].output_index = ContractsPerGroup

\* the types handled a group at a time
GroupWorkers == {"ContractStateConfig", "ContractBalanceConfig"}

\* the leaves a transaction has folded, of every accumulator
TxLeaves(t) == t.coin_roots \o t.message_roots \o t.contract_ids \o t.contract_roots

\* C23: for ContractStates and ContractBalances the handler is invoked once
\* per group with the whole batch: the transaction of a group in flight
\* holds exactly the records of the group, written by the one batch write,
\* and no commitment leaf; the handler's output_index stays unchanged and
\* init_coin / init_contract are never called; the commit of the group
\* changes no accumulator.
GroupLevelHandling ==
  /\ [](\A t \in GroupWorkers :
          /\ handler[t].output_index = 0
          /\ passed[t] = <<>>
          /\ pc[t] = "inflight" =>
               LET data == GroupsOf(t)[pos[t] + 1].data IN
               /\ tx[t].contract_state \cup tx[t].contract_balance =
                    {data[i] : i \in 1..Len(data)}
               /\ (t = "ContractStateConfig") => tx[t].contract_balance = {}
               /\ (t = "ContractBalanceConfig") => tx[t].contract_state = {}
               /\ tx[t].coins \cup tx[t].messages \cup tx[t].contracts = {}
               /\ TxLeaves(tx[t]) = <<>>)
  /\ [][\A t \in GroupWorkers :
          /\ handler'[t] = handler[t]
          /\ committed'[genesis_resource(t)] # committed[genesis_resource(t)] =>
               Commitments(db') = Commitments(db)]_vars

\* the state group of two entries is committed and the balances group is in
\* flight
GroupLevelHandlingWitness ==
  /\ snapshot = "contracts"
  /\ committed["ContractStates"] = <<0>>
  /\ db.contract_state =
       {GroupsOf("ContractStateConfig")[1].data[i] : i \in 1..Len(StateOfContract)}
  /\ Len(StateOfContract) > 1
  /\ pc["ContractBalanceConfig"] = "inflight"
  /\ Cardinality(tx["ContractBalanceConfig"].contract_balance) = Len(BalancesOfContract)

(***************************************************************************)
(* Termination (checked under SpecLive).                                   *)
(***************************************************************************)
\* the runner of t exists and has not ended
Running(t) == pc[t] \in {"queued", "boundary", "inflight"}

\* C24: under fair scheduling, in a process that is not aborted by a panic,
\* every runner that was created eventually ends in success, Canceled or
\* error, and the outcome it ended in stays; once the cancellation token is
\* triggered no runner starts a group: the only commit a runner still makes
\* is that of the group it has in flight.
Termination ==
  /\ \A t \in AllWorkers :
       Running(t) ~> (pc[t] \in Terminal \/ result = "Panic")
  /\ [][\A t \in AllWorkers :
          /\ pc[t] \in Terminal => pc'[t] = pc[t]
          /\ cancel_token =>
               /\ pc'[t] = "inflight" => pc[t] = "inflight"
               /\ committed'[genesis_resource(t)] # committed[genesis_resource(t)] =>
                    (pc[t] = "inflight" /\ pc'[t] = "boundary")]_vars

\* the token was triggered from outside while the second coin group was in
\* flight: the group was committed and every runner has ended
TerminationWitness ==
  /\ snapshot = "records"
  /\ cancel_token
  /\ first_error = "none"
  /\ committed["Coins"] = [i \in 1..CoinGroups |-> i - 1]
  /\ pc["CoinConfig"] = "Success"
  /\ pc["ContractConfig"] = "Canceled"
  /\ \A t \in Workers : pc[t] \in Terminal
  /\ result = "Canceled"

(***************************************************************************)
(* Properties of StateConfig (checked under SpecConfig).                   *)
(***************************************************************************)
\* load_from_directory has just returned
LoadReturns ==
  \/ ~loaded.called /\ loaded'.called
  \/ loaded.called /\ loaded'.called /\ loaded.ok # loaded'.ok

\* C13: for every StateConfig (coins, contracts and messages present or
\* absent, the optional fields of the records present or absent), what
\* from_str makes of the string to_string made of it is equal to it, and
\* load_from_directory after create_config_file on the same directory
\* succeeds and returns a StateConfig equal to the one written.
StateConfigRoundTrip ==
  /\ [](deserialized.called => (deserialized.ok /\ deserialized.value = config))
  /\ []((loaded.called /\ loaded.ok) => loaded.value = config)
  /\ [][(config_file.text # "none" /\ LoadReturns) => loaded'.ok]_vars

\* a StateConfig without coins, with a contract that has state and no origin
\* transaction, has made both round trips
StateConfigRoundTripWitness ==
  /\ config.coins = Nothing
  /\ config.messages = Just(<<>>)
  /\ config.contracts # Nothing
  /\ Len(config.contracts[1]) = 1
  /\ config.contracts[1][1].tx_id = Nothing
  /\ config.contracts[1][1].state = Just(<<<<"k1", "v1">>>>)
  /\ deserialized.called
  /\ deserialized.value = config
  /\ loaded.called
  /\ loaded.ok
  /\ loaded.value = config

(***************************************************************************)
(* Properties of the handler's counter (checked under SpecHandler).        *)
(***************************************************************************)
\* C20: the handler's output_index never wraps around: it stays within the
\* u64 and never decreases; processing a coin or contract record that would
\* advance it past the maximum ends in the panic, not in an error return
\* and not in a handler that goes on, and a panic has no other cause; so no
\* two records are ever given the same slot.
CounterOverflowIsFatal ==
  /\ [](lone_handler.output_index \in 0..U64Max)
  /\ [](\A i, j \in 1..Len(lone_tx.calls) :
          lone_tx.calls[i] = lone_tx.calls[j] => i = j)
  /\ [][/\ lone_handler'.output_index >= lone_handler.output_index
        /\ (lone_handler.output_index = U64Max /\ lone_count' > lone_count
              /\ lone_last'.fail = "none") => lone_status' = "Panic"
        /\ lone_status' = "Panic" =>
             (lone_handler.output_index = U64Max /\ lone_last'.fail = "none")]_vars

\* the record that was given the last slot made the counter overflow
CounterOverflowIsFatalWitness ==
  /\ lone_status = "Panic"
  /\ lone_handler.output_index = U64Max
  /\ Len(lone_tx.calls) = U64Max + 1
  /\ lone_tx.calls[Len(lone_tx.calls)] = U64Max

(***************************************************************************)
(* Properties of a call of the handler (checked under SpecStep).           *)
(***************************************************************************)
\* C25: within one handler a successfully processed coin or contract record
\* advances output_index by exactly 1, the value init_coin / init_contract
\* is called with is the value of the counter before the call, and a
\* message or a contract id leaves output_index as it was and calls neither.
CounterStep ==
  [][lone_count' > lone_count =>
       /\ (lone_last'.ty \in UtxoWorkers /\ lone_status' = "ready") =>
            lone_handler'.output_index = lone_handler.output_index + 1
       /\ lone_last'.ty \in UtxoWorkers =>
            lone_tx'.calls = Append(lone_tx.calls, lone_handler.output_index)
       /\ lone_last'.ty \notin UtxoWorkers =>
            /\ lone_handler'.output_index = lone_handler.output_index
            /\ lone_tx'.calls = lone_tx.calls]_vars

\* a coin, a message and a contract were processed: the coin got slot 0, the
\* contract slot 1
CounterStepWitness ==
  /\ lone_status = "ready"
  /\ lone_count = 3
  /\ lone_handler.output_index = 2
  /\ lone_tx.calls = <<0, 1>>
  /\ Len(lone_tx.coin_roots) = 1
  /\ Len(lone_tx.message_roots) = 1
  /\ lone_last.ty = "ContractConfig"

\* C26: when the processing of a coin or contract record fails (in init_coin
\* / init_contract or in the add_coin_root / add_contract_id that follows)
\* the handler returns the error and output_index keeps the value it had
\* before the call; the handler returns an error in no other case.
CounterUnchangedOnError ==
  [][(lone_count' > lone_count /\ lone_last'.ty \in UtxoWorkers) =>
       /\ lone_last'.fail # "none" =>
            /\ lone_status' = "Err"
            /\ lone_handler'.output_index = lone_handler.output_index
       /\ lone_status' = "Err" => lone_last'.fail # "none"]_vars

\* after a coin was processed, add_contract_id failed for a contract
CounterUnchangedOnErrorWitness ==
  /\ lone_status = "Err"
  /\ lone_last = [ty |-> "ContractConfig", fail |-> "add"]
  /\ lone_handler.output_index = 1
  /\ lone_tx.calls = <<0, 1>>
  /\ lone_tx.contract_ids = <<>>

(***************************************************************************)
(* Properties of StopSignals (checked under SpecSignals).                  *)
(***************************************************************************)
\* the notifications add returned in the first k calls
Handed(k) == {log[j].item.value : j \in {j \in 1..k : log[j].op = "add"}}

\* the notifications the iterator yielded in the first k calls
Yielded(k) ==
  {log[j].item.value : j \in {j \in 1..k : log[j].op = "next" /\ log[j].item.some}}

\* C27: every notification add returned is kept in the collection until the
\* iterator yields it; each call of next yields the notification added last
\* among those kept, so each is yielded exactly once and, when the
\* collection is iterated, in reverse order of creation; next yields
\* nothing when none is kept; what is yielded is the object add returned.
StopSignalsReverseOrder ==
  /\ {signals[i] : i \in 1..Len(signals)} = Handed(Len(log)) \ Yielded(Len(log))
  /\ \A i, j \in 1..Len(signals) : i < j => signals[i] < signals[j]
  /\ \A k \in 1..Len(log) :
       /\ log[k].op = "add" => (log[k].item.some /\ log[k].item.value \notin Handed(k - 1))
       /\ log[k].op = "next" =>
            LET kept == Handed(k - 1) \ Yielded(k - 1) IN
            IF kept = {} THEN ~log[k].item.some
            ELSE /\ log[k].item.some
                 /\ log[k].item.value \in kept
                 /\ \A other \in kept : other <= log[k].item.value
  /\ \A j, k \in 1..Len(log) :
       (j < k /\ log[j].op = "next" /\ log[k].op = "next"
          /\ log[j].item.some /\ log[k].item.some
          /\ \A a \in j..k : log[a].op = "next") =>
         log[j].item.value > log[k].item.value

\* three notifications were handed out; the iterator yielded the third, the
\* second, the first, and then nothing
StopSignalsReverseOrderWitness ==
  /\ Len(log) = 7
  /\ \A k \in 1..3 : log[k] = [op |-> "add", item |-> Some(k)]
  /\ \A k \in 4..6 : log[k] = [op |-> "next", item |-> Some(7 - k)]
  /\ log[7] = [op |-> "next", item |-> None]
  /\ signals = <<>>

(***************************************************************************)
(* Properties of the ContractsRoot grouping (checked under SpecChunks).    *)
(***************************************************************************)
\* C28: the group sequence of the ContractsRoot worker has one element per
\* element the iterator over the store's contract ids yields: the i-th
\* (from 0, errors counted) is the group of index i holding that one id, or,
\* if reading the i-th id failed, that error at position i.
ContractsRootGrouping ==
  root_groups # Nothing =>
    LET groups == root_groups[1] IN
    /\ Len(groups) = Len(chunks)
    /\ \A i \in 1..Len(chunks) :
         IF IsErr(chunks[i]) THEN groups[i] = chunks[i]
         ELSE /\ ~IsErr(groups[i])
              /\ groups[i].index = i - 1
              /\ Len(groups[i].data) = 1
              /\ groups[i].data[1] = chunks[i].value

\* the second id could not be read: the third element is group 2
ContractsRootGroupingWitness ==
  /\ chunks = <<OkChunk(1), ErrChunk, OkChunk(2)>>
  /\ root_groups # Nothing
  /\ root_groups[1][2] = ErrChunk
  /\ root_groups[1][3] = Group(2, <<2>>)

(***************************************************************************)
(* Properties of dependent_cost (checked under SpecCost).                  *)
(***************************************************************************)
Abs(n) == IF n < 0 THEN -n ELSE n

\* r is the fraction x rounded to the nearest integer, a half away from zero
IsRounded(x, r) ==
  /\ 2 * Abs(x.num - r * x.den) <= x.den
  /\ 2 * Abs(x.num - r * x.den) = x.den => Abs(r) * x.den > Abs(x.num)

Rounded(x) == CHOOSE r \in 0..(MaxSlope + Scale + 1) : IsRounded(x, r)

\* a value capped at the largest u64
Capped(r) == IF r > U64Max THEN U64Max ELSE r

\* a Linear model with a slope strictly between 0 and 1
IsLight(m) ==
  /\ m.kind = "Linear"
  /\ ~m.slope.nan
  /\ 0 < m.slope.num
  /\ m.slope.num < m.slope.den

\* a Linear model with a slope >= 1
IsHeavy(m) ==
  /\ m.kind = "Linear"
  /\ ~m.slope.nan
  /\ m.slope.num >= m.slope.den

\* the classification, with units_per_gas and gas_per_unit got from the
\* rounded values by `convert`
Classification(convert(_)) ==
  (cost # Nothing /\ model # Nothing) =>
    LET m == model[1]
        r == cost[1] IN
    /\ r.variant \in {"LightOperation", "HeavyOperation"}
    /\ r.variant = "LightOperation" <=> IsLight(m)
    /\ IsLight(m) =>
         /\ r.units_per_gas = convert(Rounded([m.slope EXCEPT !.num = m.slope.den,
                                                             !.den = m.slope.num]))
         /\ r.units_per_gas >= 1
    /\ IsHeavy(m) => r.gas_per_unit = convert(Rounded(m.slope))
    /\ (~IsLight(m) /\ ~IsHeavy(m)) => r.gas_per_unit = 0
    /\ m.kind \in {"Zero", "Quadratic", "Other"} => r.base = 0

Identity(r) == r

\* C29, as claimed: LightOperation only for a Linear model with a slope
\* strictly between 0 and 1, units_per_gas then the rounded inverse slope
\* and at least 1; a slope >= 1 gives HeavyOperation with gas_per_unit the
\* rounded slope; every other model gives HeavyOperation with gas_per_unit
\* 0; base is 0 for Zero, Quadratic and Other.
DependentCostClassification == Classification(Identity)

\* C29, amended: the same, with units_per_gas and gas_per_unit the rounded
\* inverse slope and the rounded slope capped at the largest u64, the value
\* the cast `as u64` gives for a larger one.
DependentCostSaturating == Classification(Capped)

\* a slope so small that its rounded inverse is beyond the largest u64
DependentCostSaturatingWitness ==
  /\ model = Just([kind |-> "Linear", slope |-> Frac(1, Scale),
                   intercept |-> Frac(MaxIntercept, Scale)])
  /\ Scale > U64Max
  /\ cost # Nothing
  /\ cost[1].variant = "LightOperation"
  /\ cost[1].units_per_gas = U64Max

====
